---- MODULE Spec2Model ----
(***************************************************************************)
(* Model of the lead-capture dialogue orchestrator (runLeadOrchestrator)   *)
(* and of the confirmation step of the step-flow conversation              *)
(* (handleProjectConversation) of follow-up-bot.                           *)
(*                                                                         *)
(* JavaScript values that may be undefined or null are tagged records:     *)
(*   Undefined, Null, Num(n), Str(s), Arr(seq), Keys(set).                 *)
(* A user utterance is a sequence of UTF-16 code units; an ASCII unit is   *)
(* the one-character string, any other unit is named "uXXXX" after its     *)
(* code point.                                                             *)
(***************************************************************************)
EXTENDS Integers, Sequences, FiniteSets, TLC

VARIABLES state, inp, out

vars == <<state, inp, out>>

----------------------------------------------------------------------------
(* JavaScript values *)

Undefined == [undefined |-> TRUE]
Null == [null |-> TRUE]
Num(n) == [num |-> n]
Str(s) == [str |-> s]
Arr(a) == [arr |-> a]
Keys(k) == [keys |-> k]

\* v == null / v != null (loose): true of null and of undefined
Nullish(v) == v = Undefined \/ v = Null

\* ToBoolean(v): undefined, null, 0 and "" are falsy
Truthy(v) ==
    IF Nullish(v) THEN FALSE
    ELSE IF "num" \in DOMAIN v THEN v.num # 0
    ELSE IF "str" \in DOMAIN v THEN v.str # ""
    ELSE IF "chars" \in DOMAIN v THEN v.chars # <<>>
    ELSE TRUE

----------------------------------------------------------------------------
(* Strings as sequences of code units *)

\* what \s and String.prototype.trim() treat as white space
WhiteSpace == {" ", "\t", "\n"}

\* U+0964, the Devanagari danda
Danda == "u0964"

\* the character class [.\s<danda>,] of the cleaning regex
PunctClass == {".", ",", Danda} \cup WhiteSpace

UpperCase == {"A", "B", "C", "D", "E", "F", "G", "H", "I", "J", "K", "L", "M",
              "N", "O", "P", "Q", "R", "S", "T", "U", "V", "W", "X", "Y", "Z"}

LowerChar(c) ==
    CASE c = "A" -> "a" [] c = "B" -> "b" [] c = "C" -> "c" [] c = "D" -> "d"
      [] c = "E" -> "e" [] c = "F" -> "f" [] c = "G" -> "g" [] c = "H" -> "h"
      [] c = "I" -> "i" [] c = "J" -> "j" [] c = "K" -> "k" [] c = "L" -> "l"
      [] c = "M" -> "m" [] c = "N" -> "n" [] c = "O" -> "o" [] c = "P" -> "p"
      [] c = "Q" -> "q" [] c = "R" -> "r" [] c = "S" -> "s" [] c = "T" -> "t"
      [] c = "U" -> "u" [] c = "V" -> "v" [] c = "W" -> "w" [] c = "X" -> "x"
      [] c = "Y" -> "y" [] c = "Z" -> "z" [] OTHER -> c

\* String.prototype.toLowerCase
ToLowerCase(s) == [i \in 1..Len(s) |-> LowerChar(s[i])]

\* s without its longest prefix and suffix of units in class
StripClass(s, class) ==
    LET keep == {i \in 1..Len(s) : s[i] \notin class}
    IN  IF keep = {} THEN <<>>
        ELSE SubSeq(s,
                    CHOOSE i \in keep : \A j \in 1..(i - 1) : s[j] \in class,
                    CHOOSE i \in keep : \A j \in (i + 1)..Len(s) : s[j] \in class)

\* String.prototype.trim
StrTrim(s) == StripClass(s, WhiteSpace)

\* String.prototype.includes
Includes(s, sub) ==
    \E i \in 0..(Len(s) - Len(sub)) : SubSeq(s, i + 1, i + Len(sub)) = sub

\* String.prototype.startsWith
StartsWith(s, p) == Len(p) <= Len(s) /\ SubSeq(s, 1, Len(p)) = p

\* Array.prototype.join over TLA+ strings
RECURSIVE Join(_, _)
Join(parts, sep) ==
    IF parts = <<>> THEN ""
    ELSE IF Len(parts) = 1 THEN parts[1]
    ELSE parts[1] \o sep \o Join(Tail(parts), sep)

----------------------------------------------------------------------------
(* Word lists of the orchestrator's detectors *)

greetings ==
    << <<"h", "i">>,
       <<"h", "e", "l", "l", "o">>,
       <<"h", "e", "y">>,
       <<"n", "a", "m", "a", "s", "t", "e">>,
       <<"n", "a", "m", "a", "s", "k", "a", "r">>,
       <<"g", "o", "o", "d", " ", "m", "o", "r", "n", "i", "n", "g">>,
       <<"g", "o", "o", "d", " ", "e", "v", "e", "n", "i", "n", "g">>,
       <<"g", "o", "o", "d", " ", "a", "f", "t", "e", "r", "n", "o", "o", "n">>,
       <<"u0930", "u093E", "u092E", " ", "u0930", "u093E", "u092E">>,
       <<"j", "a", "i", " ", "s", "h", "r", "e", "e", " ",
         "k", "r", "i", "s", "h", "n", "a">>,
       <<"u091C", "u092F", " ", "u0936", "u094D", "u0930", "u0940", " ",
         "u0915", "u0943", "u0937", "u094D", "u0923">> >>

yesWords ==
    << <<"h", "a", "a", "n">>,
       <<"h", "a">>,
       <<"h", "a", "a">>,
       <<"y", "e", "s">>,
       <<"y">>,
       <<"u091C", "u0940">>,
       <<"u0939", "u093E", "u0901">>,
       <<"u0939", "u093E", "u0902">>,
       <<"u0915", "u0930", " ", "u0926", "u094B">>,
       <<"u0915", "u0930", "u0926", "u094B">>,
       <<"u0915", "u0930", " ", "u0926", "u0940", "u091C", "u093F", "u090F">> >>

noWords ==
    << <<"n", "a", "h", "i">>,
       <<"n", "a", "h", "i", "n">>,
       <<"n", "a">>,
       <<"n", "o">>,
       <<"n">>,
       <<"u092E", "u0924">>,
       <<"u092E", "u0924", " ", "u0915", "u0930", "u094B">>,
       <<"u092E", "u0924", " ", "u0915", "u0930">>,
       <<"u0928", "u0939", "u0940", "u0902">> >>

\* Array.prototype.some over a sequence
Some(list, P(_)) == \E i \in 1..Len(list) : P(list[i])

\* raw.replace(/^[.\s<danda>,]+|[.\s<danda>,]+$/g, '').trim()
Cleaned(raw) == StrTrim(StripClass(raw, PunctClass))

detectGreeting(text) ==
    LET normalized == ToLowerCase(StrTrim(text))
        Hit(g) == normalized = g \/ StartsWith(normalized, g \o <<" ">>)
    IN  IF normalized = <<>> THEN FALSE ELSE Some(greetings, Hit)

detectYes(text) ==
    LET raw == StrTrim(text)
        cleaned == ToLowerCase(Cleaned(raw))
        Hit(y) == cleaned = y \/ Includes(raw, y)
    IN  Some(yesWords, Hit)

detectNo(text) ==
    LET raw == StrTrim(text)
        cleaned == ToLowerCase(Cleaned(raw))
        Hit(n) == cleaned = n \/ Includes(raw, n)
    IN  Some(noWords, Hit)

----------------------------------------------------------------------------
(* The yes/no check of the step flow (handleProjectConversation) *)

yesValues ==
    << <<"u0915", "u0930", " ", "u0926", "u094B">>,
       <<"u0915", "u0930", "u0926", "u094B">>,
       <<"u0915", "u0930", " ", "u0926", "u0940", "u091C", "u093F", "u090F">>,
       <<"u0939", "u093E", "u0901", " ", "u0915", "u0930", " ", "u0926", "u094B">>,
       <<"h", "a", "a", "n", " ", "k", "a", "r", " ", "d", "o">>,
       <<"u0939", "u093E", "u0901">>,
       <<"u0939", "u093E", "u0902">>,
       <<"u0939", "u093E">>,
       <<"u091C", "u0940">>,
       <<"u0939", "u093E", "u0901", " ", "u091C", "u0940">>,
       <<"u0AB9", "u0ABE">>,
       <<"u0AB9", "u0ABE", "u0A82">>,
       <<"u0AB9", "u0ABE", " ", "u0A9C", "u0AC0">>,
       <<"u0A9C", "u0AC0">>,
       <<"u0CB9", "u0CBE">>,
       <<"u0CB9", "u0CBE", "u0C82">>,
       <<"h", "a", "a", "n">>,
       <<"h", "a">>,
       <<"h", "a", "a">>,
       <<"h", "a", "n">>,
       <<"h", "a", "a", "n", "a">>,
       <<"h", "u0101", "n">>,
       <<"y", "e", "s">>,
       <<"y">>,
       <<"y", "e">>,
       <<"j", "i">> >>

noValues ==
    << <<"u092E", "u0924", " ", "u0915", "u0930", "u094B">>,
       <<"u092E", "u0924", " ", "u0915", "u0930">>,
       <<"u092E", "u0924", " ", "u0915", "u0940", "u091C", "u093F", "u090F">>,
       <<"u0930", "u0926", "u094D", "u0926">>,
       <<"u0930", "u0926">>,
       <<"r", "a", "d">>,
       <<"c", "a", "n", "c", "e", "l">>,
       <<"u0915", "u0948", "u0902", "u0938", "u0932">>,
       <<"u0928", "u0939", "u0940", "u0902">>,
       <<"u0928", "u0939", "u093F">>,
       <<"u092E", "u0924">>,
       <<"u0AA8", "u0ABE">>,
       <<"u0AA8", "u0AB9", "u0AC0", "u0A82">>,
       <<"u0AA8", "u0AB9", "u0ABF">>,
       <<"n", "a", "h", "i", "n">>,
       <<"n", "a", "h", "i">>,
       <<"n", "a">>,
       <<"n", "o">>,
       <<"n">>,
       <<"m", "a", "t">> >>

\* Array.prototype.includes over a sequence
ListHas(list, x) == \E i \in 1..Len(list) : list[i] = x

\* raw.length <= 15 gates the substring fallback
SubstringMaxLen == 15

isYes(text) ==
    LET raw == StrTrim(text)
        cleaned == Cleaned(raw)
        normalized == ToLowerCase(cleaned)
    IN  \/ ListHas(yesValues, normalized)
        \/ ListHas(yesValues, cleaned)
        \/ ListHas(yesValues, raw)
        \/ (Len(raw) <= SubstringMaxLen /\ Includes(raw, <<"u0AB9", "u0ABE">>))

isNo(text) ==
    LET raw == StrTrim(text)
        cleaned == Cleaned(raw)
        normalized == ToLowerCase(cleaned)
    IN  \/ ListHas(noValues, normalized)
        \/ ListHas(noValues, cleaned)
        \/ ListHas(noValues, raw)
        \/ (Len(raw) <= SubstringMaxLen
            /\ (\/ Includes(raw, <<"u0928", "u093E">>)
                \/ Includes(raw, <<"u0928", "u0939", "u0940", "u0902">>)
                \/ Includes(raw, <<"u0AA8", "u0ABE">>)
                \/ Includes(raw, <<"u0AA8", "u0AB9", "u0AC0", "u0A82">>)))


----------------------------------------------------------------------------
(* Regular-expression helpers of the quote parameter extractor *)

Digits == {"0", "1", "2", "3", "4", "5", "6", "7", "8", "9"}

DigitVal(c) ==
    CASE c = "0" -> 0 [] c = "1" -> 1 [] c = "2" -> 2 [] c = "3" -> 3
      [] c = "4" -> 4 [] c = "5" -> 5 [] c = "6" -> 6 [] c = "7" -> 7
      [] c = "8" -> 8 [] c = "9" -> 9

\* parseInt(digits, 10) of a non-empty run of decimal digits
RECURSIVE parseInt(_)
parseInt(ds) ==
    IF Len(ds) = 0 THEN 0
    ELSE 10 * parseInt(SubSeq(ds, 1, Len(ds) - 1)) + DigitVal(ds[Len(ds)])

\* first index >= i whose unit is not in class (Len(s) + 1 when none): class* is greedy
SkipClass(s, i, class) ==
    LET stop == {k \in i..Len(s) : s[k] \notin class}
    IN  IF stop = {} THEN Len(s) + 1 ELSE CHOOSE k \in stop : \A m \in stop : k <= m

\* the literal lit occurs in s at index i
LitAt(s, i, lit) ==
    i >= 1 /\ i + Len(lit) - 1 <= Len(s) /\ SubSeq(s, i, i + Len(lit) - 1) = lit

\* smallest member of a non-empty set of indices: the leftmost match
MinOf(set) == CHOOSE i \in set : \A j \in set : i <= j

\* index after (?:days?|weeks?|months?) matched at i, or 0 when it does not match
UnitEnd(s, i) ==
    LET base == IF LitAt(s, i, <<"d", "a", "y">>) THEN i + 3
                ELSE IF LitAt(s, i, <<"w", "e", "e", "k">>) THEN i + 4
                ELSE IF LitAt(s, i, <<"m", "o", "n", "t", "h">>) THEN i + 5
                ELSE 0
    IN  IF base = 0 THEN 0
        ELSE IF LitAt(s, base, <<"s">>) THEN base + 1 ELSE base

\* index after \d+\s*(?:days?|weeks?|months?) matched at i, or 0
DurationEnd(s, i) ==
    IF i > Len(s) \/ s[i] \notin Digits THEN 0
    ELSE UnitEnd(s, SkipClass(s, SkipClass(s, i, Digits), WhiteSpace))

\* normalizedText.match(/(\d+)\s*options?/): the captured digits, or <<>> for null
optionsMatch(s) ==
    LET hits == {i \in 1..Len(s) :
                    /\ s[i] \in Digits
                    /\ LitAt(s, SkipClass(s, SkipClass(s, i, Digits), WhiteSpace),
                             <<"o", "p", "t", "i", "o", "n">>)}
    IN  IF hits = {} THEN <<>>
        ELSE SubSeq(s, MinOf(hits), SkipClass(s, MinOf(hits), Digits) - 1)

\* the two timeline regexes, tried in order: capture group 1, or <<>> for null
timelineMatch(s) ==
    LET word == <<"t", "i", "m", "e", "l", "i", "n", "e">>
        From(i) == SkipClass(s, i + Len(word), WhiteSpace)
        hits1 == {i \in 1..Len(s) : LitAt(s, i, word) /\ DurationEnd(s, From(i)) # 0}
        hits2 == {i \in 1..Len(s) : DurationEnd(s, i) # 0}
    IN  IF hits1 # {}
        THEN SubSeq(s, From(MinOf(hits1)), DurationEnd(s, From(MinOf(hits1))) - 1)
        ELSE IF hits2 # {}
        THEN SubSeq(s, MinOf(hits2), DurationEnd(s, MinOf(hits2)) - 1)
        ELSE <<>>

\* start index of (\d+) in \s*(\d+)\s*% matched at i, or 0
PercentAt(s, i) ==
    LET d == SkipClass(s, i, WhiteSpace)
    IN  IF d <= Len(s) /\ s[d] \in Digits
           /\ LitAt(s, SkipClass(s, SkipClass(s, d, Digits), WhiteSpace), <<"%">>)
        THEN d ELSE 0

\* mutant: only the form "<N>% advance" is recognised
advanceMatchPercentFirst(s) ==
    LET adv == <<"a", "d", "v", "a", "n", "c", "e">>
        After(i) == SkipClass(s, SkipClass(s, i, Digits), WhiteSpace)
        hits2 == {i \in 1..Len(s) :
                    /\ s[i] \in Digits
                    /\ LitAt(s, After(i), <<"%">>)
                    /\ LitAt(s, SkipClass(s, After(i) + 1, WhiteSpace), adv)}
    IN  IF hits2 # {}
        THEN SubSeq(s, MinOf(hits2), SkipClass(s, MinOf(hits2), Digits) - 1)
        ELSE <<>>

\* the two advance regexes, tried in order: the captured digits, or <<>> for null
advanceMatch(s) ==
    LET adv == <<"a", "d", "v", "a", "n", "c", "e">>
        pay == <<"p", "a", "y", "m", "e", "n", "t">>
        \* (?:advance|advance\s*payment)\s*(\d+)\s*% at i: start of the digits, or 0
        Alt(i) ==
            IF ~LitAt(s, i, adv) THEN 0
            ELSE IF PercentAt(s, i + Len(adv)) # 0 THEN PercentAt(s, i + Len(adv))
            ELSE IF LitAt(s, SkipClass(s, i + Len(adv), WhiteSpace), pay)
            THEN PercentAt(s, SkipClass(s, i + Len(adv), WhiteSpace) + Len(pay))
            ELSE 0
        hits1 == {i \in 1..Len(s) : Alt(i) # 0}
        \* (\d+)\s*%\s*(?:advance|advance\s*payment) at i
        After(i) == SkipClass(s, SkipClass(s, i, Digits), WhiteSpace)
        hits2 == {i \in 1..Len(s) :
                    /\ s[i] \in Digits
                    /\ LitAt(s, After(i), <<"%">>)
                    /\ LitAt(s, SkipClass(s, After(i) + 1, WhiteSpace), adv)}
    IN  IF hits1 # {}
        THEN SubSeq(s, Alt(MinOf(hits1)), SkipClass(s, Alt(MinOf(hits1)), Digits) - 1)
        ELSE IF hits2 # {}
        THEN SubSeq(s, MinOf(hits2), SkipClass(s, MinOf(hits2), Digits) - 1)
        ELSE <<>>

\* a string result kept as code units
Txt(s) == [chars |-> s]

\* mutant: one of the two words is enough for labour_and_material
ExtractRequirementsEitherWord(text) ==
    LET normalizedText == ToLowerCase(text)
        om == optionsMatch(normalizedText)
        tm == timelineMatch(normalizedText)
        am == advanceMatch(normalizedText)
    IN  [options |-> IF om # <<>> THEN Num(parseInt(om)) ELSE Num(3),
         timeline |-> IF tm # <<>> THEN Txt(tm) ELSE Undefined,
         advance |-> IF am # <<>> THEN Num(parseInt(am)) ELSE Undefined,
         labour_and_material |->
             \/ Includes(normalizedText, <<"l", "a", "b", "o", "u", "r">>)
             \/ Includes(normalizedText, <<"m", "a", "t", "e", "r", "i", "a", "l">>)]

\* the requirements object built from the utterance
ExtractRequirements(text) ==
    LET normalizedText == ToLowerCase(text)
        om == optionsMatch(normalizedText)
        tm == timelineMatch(normalizedText)
        am == advanceMatch(normalizedText)
    IN  [options |-> IF om # <<>> THEN Num(parseInt(om)) ELSE Num(3),
         timeline |-> IF tm # <<>> THEN Txt(tm) ELSE Undefined,
         advance |-> IF am # <<>> THEN Num(parseInt(am)) ELSE Undefined,
         labour_and_material |->
             /\ Includes(normalizedText, <<"l", "a", "b", "o", "u", "r">>)
             /\ (\/ Includes(normalizedText, <<"m", "a", "t", "e", "r", "i", "a", "l">>)
                 \/ Includes(normalizedText, <<"m", "a", "t", "e", "r", "i", "a", "l">>))]


----------------------------------------------------------------------------
(* Reply texts. The en dash U+2013 of the source is written "--". *)

GreetingReply ==
    "Namaste! Main aapka painting assistant hoon. "
    \o "Aap bata sakte ho kis type ka painting ka kaam chahiye (ghar, office, interior, exterior) aur location kaha hai?"

GeneralQuestionReply ==
    "Ye ek general sawaal lag raha hai. Agar yeh kisi specific project ke baare mein hai, "
    \o "to please customer ka naam aur area (jaise HSR, Whitefield, JP Nagar) batao taaki sahi project pe baat ho sake."

QuoteAckReply ==
    "Theek hai, main aapke liye quote options generate kar raha hoon. Thoda wait karein..."

MeasurementAckReply ==
    "Theek hai, maine measurement note kar liya hai. Agar kuch aur detail (colour, coats, area breakup) add karna ho to batao, ya phir estimate ke baare mein puch sakte ho."

SiteVisitReply ==
    "Theek hai, lead confirm ho gaya hai. Ab site visit schedule karte hain -- "
    \o "aapko kaunse din aur kis time convenient hoga customer location par?"

ModificationReply ==
    "Theek hai, batao kya change karna hai -- location, area, customer detail ya painting ka scope?"

AnalysisFailedReply ==
    "Lead analyze karte waqt kuch problem aayi. Thodi der baad phir se try karoge?"

MoreDetailReply ==
    "Thoda aur detail share karo -- customer ka naam, phone, location aur painting ka scope batao."

VisitDetailsReply ==
    "Site visit ke liye ek clear date aur time batao (jaise: kal dupahar 3 baje, Sunday morning 10 baje)."

FallbackReply ==
    "Mujhe painting ka kaam samajh aa gaya hai. Agar kuch aur specific chahiye "
    \o "to batao, warna hum site visit schedule kar sakte hain."

NameQuestion == "Customer ka naam kya hai?"

PhoneQuestion == "Customer ka mobile number share karoge? (+91 se start ho sakta hai)"

LocationQuestion == "Site ka exact location batao (area + street / landmark)."

JobTypeQuestion ==
    "Painting ka exact kaam batao -- kis area mein (room / poora ghar / office / exterior), kaunsi surface (wall, ceiling, door/window, metal, wood) aur purana paint ki condition kaisi hai?"

UrgencyQuestion == "Ye kaam kab tak karwana hai? (aaj, kal, iss hafte, next week, etc.)"

ProjectRequired ==
    [type |-> "PROJECT_REQUIRED",
     message |-> "Quote generate karne ke liye pehle project select karna hoga.",
     action |-> "SELECT_PROJECT"]

MeasurementRequired ==
    [type |-> "MEASUREMENT_REQUIRED",
     message |-> "Quote generate karne ke liye measurement details chahiye (BHK, sqft, ya paintable area).",
     action |-> "LOG_MEASUREMENT"]

SqftRequired ==
    [type |-> "SQFT_REQUIRED",
     message |-> "Quote generate karne ke liye sqft ya paintable area chahiye.",
     action |-> "LOG_MEASUREMENT"]

----------------------------------------------------------------------------
(* generateFollowupQuestions and generateConfirmation *)

\* intent?.intent !== 'GENERATE_QUOTE_OPTIONS'
NotQuoteIntent(intent) ==
    IF intent = Undefined THEN TRUE ELSE intent.intent # "GENERATE_QUOTE_OPTIONS"

\* mutant: the phone is asked for before the name
FollowupChecksPhoneFirst(analysis) ==
    << <<"customer_phone", PhoneQuestion, ~Truthy(analysis.customer.phone)>>,
       <<"customer_name", NameQuestion, ~Truthy(analysis.customer.name)>>,
       <<"location_text", LocationQuestion, ~Truthy(analysis.location_text)>>,
       <<"job_type", JobTypeQuestion, analysis.job_type = Str("unknown")>>,
       <<"urgency", UrgencyQuestion, analysis.urgency = Str("unknown")>> >>

\* mutant: the urgency is not asked for
FollowupChecksNoUrgency(analysis) ==
    << <<"customer_name", NameQuestion, ~Truthy(analysis.customer.name)>>,
       <<"customer_phone", PhoneQuestion, ~Truthy(analysis.customer.phone)>>,
       <<"location_text", LocationQuestion, ~Truthy(analysis.location_text)>>,
       <<"job_type", JobTypeQuestion, analysis.job_type = Str("unknown")>> >>

\* the checks in source order: <<key of missing, question, the field is missing>>
FollowupChecks(analysis) ==
    << <<"customer_name", NameQuestion, ~Truthy(analysis.customer.name)>>,
       <<"customer_phone", PhoneQuestion, ~Truthy(analysis.customer.phone)>>,
       <<"location_text", LocationQuestion, ~Truthy(analysis.location_text)>>,
       <<"job_type", JobTypeQuestion, analysis.job_type = Str("unknown")>>,
       <<"urgency", UrgencyQuestion, analysis.urgency = Str("unknown")>> >>

\* the questions of the checks that fire, in order
RECURSIVE FiredQuestions(_)
FiredQuestions(checks) ==
    IF checks = <<>> THEN <<>>
    ELSE (IF Head(checks)[3] THEN <<Head(checks)[2]>> ELSE <<>>)
         \o FiredQuestions(Tail(checks))

\* mutant: a quote request skips only the customer and location questions
generateFollowupQuestionsQuoteAsksJob(analysis, intent) ==
    LET all == FollowupChecks(analysis)
        checks == IF NotQuoteIntent(intent) THEN all ELSE SubSeq(all, 4, 5)
    IN  [missing |-> {checks[i][1] : i \in {j \in 1..Len(checks) : checks[j][3]}},
         questions |-> FiredQuestions(checks)]

generateFollowupQuestions(analysis, intent) ==
    LET checks == IF NotQuoteIntent(intent) THEN FollowupChecks(analysis) ELSE <<>>
    IN  [missing |-> {checks[i][1] : i \in {j \in 1..Len(checks) : checks[j][3]}},
         questions |-> FiredQuestions(checks)]

generateConfirmation(analysis) ==
    LET summaryParts ==
            (IF Truthy(analysis.customer.name)
             THEN <<"Customer: " \o analysis.customer.name.str>> ELSE <<>>)
            \o (IF Truthy(analysis.location_text)
                THEN <<"Location: " \o analysis.location_text.str>> ELSE <<>>)
            \o (IF Truthy(analysis.job_type) /\ analysis.job_type # Str("unknown")
                THEN <<"Job: " \o analysis.job_type.str>> ELSE <<>>)
            \o (IF Truthy(analysis.urgency) /\ analysis.urgency # Str("unknown")
                THEN <<"Urgency: " \o analysis.urgency.str>> ELSE <<>>)
        recap == IF Len(summaryParts) > 0
                 THEN " Quick recap -- " \o Join(summaryParts, ", ") \o "."
                 ELSE ""
    IN  "Mere hisaab se painting ka kaam samajh aa gaya hai aur saari important details mil gayi hain."
        \o recap \o " Kya yeh sahi hai?"


----------------------------------------------------------------------------
(* runLeadOrchestrator *)

\* an OrchestratorOutput; an absent optional field is Undefined
Output(reply, newState, toolCall, dependencies, missing) ==
    [reply |-> reply, newState |-> newState, toolCall |-> toolCall,
     dependencies |-> dependencies, missing |-> missing]

Reply(reply, newState) == Output(reply, newState, Undefined, Undefined, Undefined)

\* { ...state, lastIntent: li }
WithLastIntent(st, li) == [st EXCEPT !.lastIntent = li]

\* a rule that does not return lets the next one decide
FallThrough == [fallThrough |-> TRUE]

\* measurements && (bhk != null || sqft != null || paintable_area != null)
hasBasicMeasurement(measurements) ==
    /\ measurements # Undefined
    /\ (\/ ~Nullish(measurements.bhk)
        \/ ~Nullish(measurements.sqft)
        \/ ~Nullish(measurements.paintable_area))

\* !measurements?.sqft && !measurements?.paintable_area
noAreaMeasurement(measurements) ==
    IF measurements = Undefined THEN TRUE
    ELSE ~Truthy(measurements.sqft) /\ ~Truthy(measurements.paintable_area)

\* mutant: the project check is left out
quoteDependenciesNoProject(st, measurements) ==
    IF ~hasBasicMeasurement(measurements) THEN <<MeasurementRequired>>
    ELSE IF noAreaMeasurement(measurements) THEN <<SqftRequired>>
    ELSE <<>>

\* mutant: the checks short-circuit after the first unmet one
quoteDependenciesShortCircuit(st, measurements) ==
    IF ~Truthy(st.leadId) THEN <<ProjectRequired>>
    ELSE IF ~hasBasicMeasurement(measurements) THEN <<MeasurementRequired>>
    ELSE IF noAreaMeasurement(measurements) THEN <<SqftRequired>>
    ELSE <<>>

\* the dependencies array built for GENERATE_QUOTE_OPTIONS
quoteDependencies(st, measurements) ==
    (IF ~Truthy(st.leadId) THEN <<ProjectRequired>> ELSE <<>>)
    \o (IF ~hasBasicMeasurement(measurements) THEN <<MeasurementRequired>>
        ELSE IF noAreaMeasurement(measurements) THEN <<SqftRequired>>
        ELSE <<>>)

\* dependencies.map(d => d.message)
Messages(deps) == [i \in 1..Len(deps) |-> deps[i].message]

\* analysis.data?.field || undefined
DataFieldOrUndefined(analysis, field) ==
    IF Nullish(analysis.data) THEN Undefined
    ELSE IF Truthy(analysis.data[field]) THEN analysis.data[field]
    ELSE Undefined

quoteToolCall(input) ==
    [name |-> "generate_quote_options",
     arguments |->
        [leadId |-> input.state.leadId,
         jobType |-> DataFieldOrUndefined(input.analysis, "job_type"),
         location |-> DataFieldOrUndefined(input.analysis, "location_text"),
         requirements |-> ExtractRequirements(input.text)]]

\* the GENERATE_QUOTE_OPTIONS branch
quoteRule(input) ==
    LET dependencies == quoteDependencies(input.state, input.measurements)
    IN  IF Len(dependencies) > 0
        THEN Output("Quote generate karne ke liye kuch details chahiye: "
                        \o Join(Messages(dependencies), " ")
                        \o " Kripya pehle ye details provide karein.",
                    WithLastIntent(input.state, "NEW"),
                    Undefined, Arr(dependencies), Undefined)
        ELSE Output(QuoteAckReply, WithLastIntent(input.state, "NEW"),
                    quoteToolCall(input), Undefined, Undefined)

\* the reply asking which project an update or a measurement is for
whichProjectReply(intent) ==
    (IF Truthy(intent.lead_hint)
     THEN "Aap shayad \"" \o intent.lead_hint.str \o "\" wale kaam ki baat kar rahe ho. "
     ELSE "")
    \o "Ye " \o (IF intent.intent = "LOG_MEASUREMENT" THEN "measurement" ELSE "update")
    \o " kisi purane project ke liye lag raha hai. "
    \o "Please batao kis project ke liye -- customer ka naam, area (HSR / Whitefield / JP Nagar) "
    \o "ya approximate date (jaise kal ka site visit) taaki main sahi project choose kar saku."

\* mutant: GENERAL_QUESTION records lastIntent NEW
intentRulesQuestionAsNew(input) ==
    LET st == input.state
        intent == input.intent
    IN  IF intent = Undefined THEN FallThrough
        ELSE IF intent.intent = "GREETING"
        THEN Reply(GreetingReply, WithLastIntent(st, "GREETING"))
        ELSE IF intent.intent = "GENERAL_QUESTION"
        THEN Reply(GeneralQuestionReply, WithLastIntent(st, "NEW"))
        ELSE IF intent.intent = "GENERATE_QUOTE_OPTIONS"
        THEN quoteRule(input)
        ELSE IF intent.intent \in {"UPDATE_EXISTING_LEAD", "LOG_MEASUREMENT"}
                /\ ~Truthy(st.leadId)
        THEN Reply(whichProjectReply(intent), WithLastIntent(st, "NEW"))
        ELSE IF intent.intent = "LOG_MEASUREMENT" /\ Truthy(st.leadId)
        THEN Reply(MeasurementAckReply, WithLastIntent(st, "NEW"))
        ELSE FallThrough

\* mutant: a measurement is acknowledged although no project is bound
intentRulesAckUnbound(input) ==
    LET st == input.state
        intent == input.intent
    IN  IF intent = Undefined THEN FallThrough
        ELSE IF intent.intent = "GREETING"
        THEN Reply(GreetingReply, WithLastIntent(st, "GREETING"))
        ELSE IF intent.intent = "GENERAL_QUESTION"
        THEN Reply(GeneralQuestionReply, WithLastIntent(st, "GREETING"))
        ELSE IF intent.intent = "GENERATE_QUOTE_OPTIONS"
        THEN quoteRule(input)
        ELSE IF intent.intent = "LOG_MEASUREMENT"
        THEN Reply(MeasurementAckReply, WithLastIntent(st, "NEW"))
        ELSE IF intent.intent = "UPDATE_EXISTING_LEAD" /\ ~Truthy(st.leadId)
        THEN Reply(whichProjectReply(intent), WithLastIntent(st, "NEW"))
        ELSE FallThrough

\* mutant: a turn without a classification is answered as a general question
intentRulesDefaultsToQuestion(input) ==
    LET st == input.state
        intent == input.intent
    IN  IF intent = Undefined
        THEN Reply(GeneralQuestionReply, WithLastIntent(st, "GREETING"))
        ELSE IF intent.intent = "GREETING"
        THEN Reply(GreetingReply, WithLastIntent(st, "GREETING"))
        ELSE IF intent.intent = "GENERAL_QUESTION"
        THEN Reply(GeneralQuestionReply, WithLastIntent(st, "GREETING"))
        ELSE IF intent.intent = "GENERATE_QUOTE_OPTIONS"
        THEN quoteRule(input)
        ELSE IF intent.intent \in {"UPDATE_EXISTING_LEAD", "LOG_MEASUREMENT"}
                /\ ~Truthy(st.leadId)
        THEN Reply(whichProjectReply(intent), WithLastIntent(st, "NEW"))
        ELSE IF intent.intent = "LOG_MEASUREMENT" /\ Truthy(st.leadId)
        THEN Reply(MeasurementAckReply, WithLastIntent(st, "NEW"))
        ELSE FallThrough

\* step 0: the classified intent, when supplied, can decide the turn
intentRules(input) ==
    LET st == input.state
        intent == input.intent
    IN  IF intent = Undefined THEN FallThrough
        ELSE IF intent.intent = "GREETING"
        THEN Reply(GreetingReply, WithLastIntent(st, "GREETING"))
        ELSE IF intent.intent = "GENERAL_QUESTION"
        THEN Reply(GeneralQuestionReply, WithLastIntent(st, "GREETING"))
        ELSE IF intent.intent = "GENERATE_QUOTE_OPTIONS"
        THEN quoteRule(input)
        ELSE IF intent.intent \in {"UPDATE_EXISTING_LEAD", "LOG_MEASUREMENT"}
                /\ ~Truthy(st.leadId)
        THEN Reply(whichProjectReply(intent), WithLastIntent(st, "NEW"))
        ELSE IF intent.intent = "LOG_MEASUREMENT" /\ Truthy(st.leadId)
        THEN Reply(MeasurementAckReply, WithLastIntent(st, "NEW"))
        ELSE FallThrough

\* step 1: the greeting heuristic on the raw text
greetingRule(input) ==
    IF detectGreeting(StrTrim(input.text))
    THEN Reply(GreetingReply, WithLastIntent(input.state, "GREETING"))
    ELSE FallThrough

\* mutant: a yes moves on to the site visit without capturing the lead
confirmationRuleKeepsStatus(input) ==
    LET st == input.state
        trimmed == StrTrim(input.text)
    IN  IF st.lastIntent = "LEAD_CAPTURED" /\ st.leadStatus = "NEW"
        THEN IF detectYes(trimmed)
             THEN Reply(SiteVisitReply, WithLastIntent(st, "SCHEDULE_SITE_VISIT"))
             ELSE IF detectNo(trimmed)
             THEN Reply(ModificationReply, WithLastIntent(st, "LEAD_MODIFICATION"))
             ELSE FallThrough
        ELSE FallThrough

\* mutant: capturing the lead binds the conversation to a project
confirmationRuleBindsLead(input) ==
    LET st == input.state
        trimmed == StrTrim(input.text)
    IN  IF st.lastIntent = "LEAD_CAPTURED" /\ st.leadStatus = "NEW"
        THEN IF detectYes(trimmed)
             THEN Reply(SiteVisitReply,
                        [st EXCEPT !.leadStatus = "LEAD_CAPTURED",
                                   !.lastIntent = "SCHEDULE_SITE_VISIT",
                                   !.leadId = Str("x")])
             ELSE IF detectNo(trimmed)
             THEN Reply(ModificationReply, WithLastIntent(st, "LEAD_MODIFICATION"))
             ELSE FallThrough
        ELSE FallThrough

\* mutant: a yes or a no is acted on although no recap was sent
confirmationRuleUnprompted(input) ==
    LET st == input.state
        trimmed == StrTrim(input.text)
    IN  IF st.leadStatus = "NEW"
        THEN IF detectYes(trimmed)
             THEN Reply(SiteVisitReply,
                        [st EXCEPT !.leadStatus = "LEAD_CAPTURED",
                                   !.lastIntent = "SCHEDULE_SITE_VISIT"])
             ELSE IF detectNo(trimmed)
             THEN Reply(ModificationReply, WithLastIntent(st, "LEAD_MODIFICATION"))
             ELSE FallThrough
        ELSE FallThrough

\* step 2: yes / no after a LEAD_CAPTURED confirmation message
confirmationRule(input) ==
    LET st == input.state
        trimmed == StrTrim(input.text)
    IN  IF st.lastIntent = "LEAD_CAPTURED" /\ st.leadStatus = "NEW"
        THEN IF detectYes(trimmed)
             THEN Reply(SiteVisitReply,
                        [st EXCEPT !.leadStatus = "LEAD_CAPTURED",
                                   !.lastIntent = "SCHEDULE_SITE_VISIT"])
             ELSE IF detectNo(trimmed)
             THEN Reply(ModificationReply, WithLastIntent(st, "LEAD_MODIFICATION"))
             ELSE FallThrough
        ELSE FallThrough

\* mutant: a failed analysis starts the conversation over
analysisFailedRuleResets(input) ==
    IF ~input.analysis.success
    THEN Reply(IF Nullish(input.analysis.error) THEN AnalysisFailedReply
               ELSE input.analysis.error.str,
               WithLastIntent(input.state, "NEW"))
    ELSE FallThrough

\* step 3: the analysis call failed
analysisFailedRule(input) ==
    IF ~input.analysis.success
    THEN Reply(IF Nullish(input.analysis.error) THEN AnalysisFailedReply
               ELSE input.analysis.error.str,
               input.state)
    ELSE FallThrough

\* mutant: the recap is sent without recording that a confirmation is pending
analysisRuleNoPending(input) ==
    LET st == input.state
        analysis == input.analysis
    IN  IF analysis.success /\ ~Nullish(analysis.data)
        THEN LET fq == generateFollowupQuestions(analysis.data, input.intent)
             IN  IF Cardinality(fq.missing) > 0
                 THEN Output(IF Len(fq.questions) > 0 THEN Join(fq.questions, "\n")
                             ELSE MoreDetailReply,
                             [st EXCEPT !.leadStatus = "NEW", !.lastIntent = "NEW"],
                             Undefined, Undefined, Keys(fq.missing))
                 ELSE IF st.leadStatus = "NEW"
                 THEN Reply(generateConfirmation(analysis.data), st)
                 ELSE FallThrough
        ELSE FallThrough

\* mutant: the recap is sent for a captured lead too
analysisRuleRecapWhenCaptured(input) ==
    LET st == input.state
        analysis == input.analysis
    IN  IF analysis.success /\ ~Nullish(analysis.data)
        THEN LET fq == generateFollowupQuestions(analysis.data, input.intent)
             IN  IF Cardinality(fq.missing) > 0
                 THEN Output(IF Len(fq.questions) > 0 THEN Join(fq.questions, "\n")
                             ELSE MoreDetailReply,
                             [st EXCEPT !.leadStatus = "NEW", !.lastIntent = "NEW"],
                             Undefined, Undefined, Keys(fq.missing))
                 ELSE Reply(generateConfirmation(analysis.data),
                            WithLastIntent(st, "LEAD_CAPTURED"))
        ELSE FallThrough

\* mutant: missing fields reopen the lead but keep the last intent
analysisRuleKeepsLastIntent(input) ==
    LET st == input.state
        analysis == input.analysis
    IN  IF analysis.success /\ ~Nullish(analysis.data)
        THEN LET fq == generateFollowupQuestions(analysis.data, input.intent)
             IN  IF Cardinality(fq.missing) > 0
                 THEN Output(IF Len(fq.questions) > 0 THEN Join(fq.questions, "\n")
                             ELSE MoreDetailReply,
                             [st EXCEPT !.leadStatus = "NEW"],
                             Undefined, Undefined, Keys(fq.missing))
                 ELSE IF st.leadStatus = "NEW"
                 THEN Reply(generateConfirmation(analysis.data),
                            WithLastIntent(st, "LEAD_CAPTURED"))
                 ELSE FallThrough
        ELSE FallThrough

\* steps 4 and 5: follow-up questions, or the confirmation recap
analysisRule(input) ==
    LET st == input.state
        analysis == input.analysis
    IN  IF analysis.success /\ ~Nullish(analysis.data)
        THEN LET fq == generateFollowupQuestions(analysis.data, input.intent)
             IN  IF Cardinality(fq.missing) > 0
                 THEN Output(IF Len(fq.questions) > 0 THEN Join(fq.questions, "\n")
                             ELSE MoreDetailReply,
                             [st EXCEPT !.leadStatus = "NEW", !.lastIntent = "NEW"],
                             Undefined, Undefined, Keys(fq.missing))
                 ELSE IF st.leadStatus = "NEW"
                 THEN Reply(generateConfirmation(analysis.data),
                            WithLastIntent(st, "LEAD_CAPTURED"))
                 ELSE FallThrough
        ELSE FallThrough

\* mutant: the visit prompt is sent whatever the leadStatus
closingRuleAnyStatus(input) ==
    IF input.state.lastIntent = "SCHEDULE_SITE_VISIT"
    THEN Reply(VisitDetailsReply, input.state)
    ELSE Reply(FallbackReply, input.state)

\* steps 6 and 7: keep asking for the visit time, or the generic fallback
closingRule(input) ==
    IF input.state.lastIntent = "SCHEDULE_SITE_VISIT"
       /\ input.state.leadStatus = "LEAD_CAPTURED"
    THEN Reply(VisitDetailsReply, input.state)
    ELSE Reply(FallbackReply, input.state)

\* r when the rule returned, otherwise what the later rules decide
OrElse(r, later) == IF r # FallThrough THEN r ELSE later

\* mutant: the pending confirmation is looked at before the greeting heuristic
runLeadOrchestratorConfirmFirst(input) ==
    OrElse(intentRules(input),
    OrElse(confirmationRule(input),
    OrElse(greetingRule(input),
    OrElse(analysisFailedRule(input),
    OrElse(analysisRule(input),
           closingRule(input))))))

\* the rules in source order: the first that returns decides the turn
runLeadOrchestrator(input) ==
    OrElse(intentRules(input),
    OrElse(greetingRule(input),
    OrElse(confirmationRule(input),
    OrElse(analysisFailedRule(input),
    OrElse(analysisRule(input),
           closingRule(input))))))

----------------------------------------------------------------------------
(* The step flow (handleProjectConversation): texts as code units *)

\* PROJECT_FLOW[0].text and PROJECT_FLOW[1].text
WorkLocationQuestion ==
    <<"u0915", "u0943", "u092A", "u092F", "u093E", " ", "u092C", "u0924", "u093E", "u0907",
      "u090F", " ", "u0915", "u093F", " ", "u092A", "u0947", "u0902", "u091F", "u093F",
      "u0902", "u0917", " ", "u0915", "u093E", " ", "u0915", "u093E", "u092E", " ", "u0915",
      "u0939", "u093E", "u0901", " ", "u0939", "u094B", " ", "u0930", "u0939", "u093E", " ",
      "u0939", "u0948", "?", " ", "(", "u091C", "u0948", "u0938", "u0947", ":", " ", "u0926",
      "u094B", " ", "u092C", "u0940", " ", "u090F", "u091A", " ", "u0915", "u0947", " ",
      "u092B", "u094D", "u0932", "u0948", "u091F", ",", " ", "u092C", "u0902", "u0917",
      "u0932", "u093E", ",", " ", "u0911", "u092B", "u093F", "u0938", ",", " ", "u0938",
      "u094B", "u0938", "u093E", "u0907", "u091F", "u0940", " ", "u0915", "u093E", " ",
      "u0935", "u093F", "u0902", "u0917", " ", "u0906", "u0926", "u093F", ")">>

RoomsCountQuestion ==
    <<"u0915", "u093F", "u0924", "u0928", "u0947", " ", "u0915", "u092E", "u0930", "u0947",
      " ", "u092A", "u0947", "u0902", "u091F", " ", "u0915", "u0930", "u0928", "u0947", " ",
      "u0939", "u0948", "u0902", "?", " ", "(", "u091C", "u0948", "u0938", "u0947", ":", " ",
      "u0926", "u094B", " ", "u0915", "u092E", "u0930", "u0947", ",", " ", "u0924", "u0940",
      "u0928", " ", "u0915", "u092E", "u0930", "u0947", ",", " ", "u090F", "u0915", " ",
      "u0939", "u0949", "u0932", " ", "u0914", "u0930", " ", "u0926", "u094B", " ", "u092C",
      "u0947", "u0921", "u0930", "u0942", "u092E", " ", "u0906", "u0926", "u093F", ")">>

PROJECT_FLOW ==
    << [key |-> "work_location", text |-> WorkLocationQuestion],
       [key |-> "rooms_count", text |-> RoomsCountQuestion] >>

\* the reply to a yes, to a no, and the reprompt
AssignedReply ==
    <<"u0920", "u0940", "u0915", " ", "u0939", "u0948", ",", " ", "u092E", "u0948", "u0902",
      "u0928", "u0947", " ", "2", " ", "u0930", "u093F", "u0938", "u094B", "u0930", "u094D",
      "u0938", " ", "u0907", "u0938", " ", "u0915", "u093E", "u092E", " ", "u0915", "u0947",
      " ", "u0932", "u093F", "u090F", " ", "u0905", "u0938", "u093E", "u0907", "u0928", " ",
      "u0915", "u0930", " ", "u0926", "u093F", "u090F", " ", "u0939", "u0948", "u0902",
      "u0964">>

NotAssignedReply ==
    <<"u0920", "u0940", "u0915", " ", "u0939", "u0948", ",", " ", "u092E", "u0948", "u0902",
      " ", "u0905", "u092D", "u0940", " ", "u0915", "u094B", "u0908", " ", "u0930", "u093F",
      "u0938", "u094B", "u0930", "u094D", "u0938", " ", "u0905", "u0938", "u093E", "u0907",
      "u0928", " ", "u0928", "u0939", "u0940", "u0902", " ", "u0915", "u0930", " ", "u0930",
      "u0939", "u093E", " ", "u0939", "u0942", "u0901", "u0964">>

RepromptReply ==
    <<"u0915", "u0943", "u092A", "u092F", "u093E", " ", "u0938", "u093F", "u0930", "u094D",
      "u092B", " ", "\"", "u0915", "u0930", " ", "u0926", "u094B", "\"", " ", "u092F", "u093E",
      " ", "\"", "u092E", "u0924", " ", "u0915", "u0930", "u094B", "\"", " ", "u092E", "u0947",
      "u0902", " ", "u091C", "u0935", "u093E", "u092C", " ", "u0926", "u0947", "u0902",
      "u0964", " ", "u0915", "u094D", "u092F", "u093E", " ", "u092E", "u0948", "u0902", " ",
      "2", " ", "u0930", "u093F", "u0938", "u094B", "u0930", "u094D", "u0938", " ", "u0907",
      "u0938", " ", "u0915", "u093E", "u092E", " ", "u0915", "u0947", " ", "u0932", "u093F",
      "u090F", " ", "u0905", "u0938", "u093E", "u0907", "u0928", " ", "u0915", "u0930", " ",
      "u0926", "u0942", "u0901", "?">>

\* the confirmation question around the rooms answer
ConfirmPrefix ==
    <<"u0920", "u0940", "u0915", " ", "u0939", "u0948", ",", " ", "u0906", "u092A", "u0928",
      "u0947", " ", "u092C", "u0924", "u093E", "u092F", "u093E", " ", "u0915", "u093F", " ",
      "u092F", "u0939", "u093E", "u0901", " ">>

ConfirmSuffix ==
    <<" ", "u092A", "u0947", "u0902", "u091F", " ", "u0915", "u0930", "u0928", "u0947", " ",
      "u0939", "u0948", "u0902", "u0964", " ", "u0939", "u092E", "u093E", "u0930", "u0947",
      " ", "u092A", "u093E", "u0938", " ", "2", " ", "u092A", "u0947", "u0902", "u091F",
      "u093F", "u0902", "u0917", " ", "u0930", "u093F", "u0938", "u094B", "u0930", "u094D",
      "u0938", " ", "u0909", "u092A", "u0932", "u092C", "u094D", "u0927", " ", "u0939",
      "u0948", "u0902", ",", " ", "u0915", "u094D", "u092F", "u093E", " ", "u092E", "u0948",
      "u0902", " ", "u0907", "u0928", "u094D", "u0939", "u0947", "u0902", " ", "u0907",
      "u0938", " ", "u0915", "u093E", "u092E", " ", "u0915", "u0947", " ", "u0932", "u093F",
      "u090F", " ", "u0905", "u0938", "u093E", "u0907", "u0928", " ", "u0915", "u0930", " ",
      "u0926", "u0942", "u0901", "?", " ", "u0915", "u0943", "u092A", "u092F", "u093E", " ",
      "u091C", "u0935", "u093E", "u092C", " ", "u092E", "u0947", "u0902", " ", "u0938",
      "u093F", "u0930", "u094D", "u092B", " ", "\"", "u0915", "u0930", " ", "u0926", "u094B",
      "\"", " ", "u092F", "u093E", " ", "\"", "u092E", "u0924", " ", "u0915", "u0930", "u094B",
      "\"", " ", "u092C", "u094B", "u0932", "u0947", "u0902", "u0964">>

\* state.answers.rooms_count || <default>
DefaultRooms ==
    <<"u0915", "u092E", "u0930", "u0947">>

StartCommand == <<"/", "p", "r", "o", "j", "e", "c", "t">>

\* conversationState: a Map from chat id to ConversationState; an absent key is Undefined
MapGet(map, chatId) == map[chatId]

MapSet(map, chatId, value) == [map EXCEPT ![chatId] = value]

\* mutant: completing a flow leaves the chat's state in the Map
MapDeleteNothing(map, chatId) == map

\* mutant: completing one chat's flow clears every chat's state
MapDeleteAll(map, chatId) == [b \in DOMAIN map |-> Undefined]

MapDelete(map, chatId) == [map EXCEPT ![chatId] = Undefined]

\* { step: 0, answers: {}, waitingForAssignConfirm: false }
InitialFlowState ==
    [step |-> 0,
     answers |-> [work_location |-> Undefined, rooms_count |-> Undefined],
     waitingForAssignConfirm |-> FALSE]

\* what a call leaves and returns; an absent savePayload is Undefined
FlowResult(map, replyText, savePayload) ==
    [conversationState |-> map,
     result |-> [replyText |-> replyText, savePayload |-> savePayload]]

\* answers.<key> ?? null
OrNull(v) == IF Nullish(v) THEN Null ELSE v

\* mutant: the two answers are saved under each other's name
SavePayloadSwapped(st, assign) ==
    [work_location |-> OrNull(st.answers.rooms_count),
     rooms_count |-> OrNull(st.answers.work_location),
     assign_resources |-> assign]

SavePayload(st, assign) ==
    [work_location |-> OrNull(st.answers.work_location),
     rooms_count |-> OrNull(st.answers.rooms_count),
     assign_resources |-> assign]

\* mutant: the start command keeps the answers already given
startFlowKeepsAnswers(map, chatId) ==
    FlowResult(MapSet(map, chatId,
                      IF MapGet(map, chatId) = Undefined THEN InitialFlowState
                      ELSE [InitialFlowState EXCEPT !.answers = MapGet(map, chatId).answers]),
               Txt(PROJECT_FLOW[1].text), Undefined)

\* the start command: reset the chat's state and ask the first question
startFlow(map, chatId) ==
    FlowResult(MapSet(map, chatId, InitialFlowState), Txt(PROJECT_FLOW[1].text), Undefined)

\* the chat is waiting for the yes / no about assigning resources
confirmStep(map, chatId, text) ==
    LET st == MapGet(map, chatId)
    IN  IF isYes(text)
        THEN FlowResult(MapDelete(map, chatId), Txt(AssignedReply), SavePayload(st, TRUE))
        ELSE IF isNo(text)
        THEN FlowResult(MapDelete(map, chatId), Txt(NotAssignedReply), SavePayload(st, FALSE))
        ELSE FlowResult(map, Txt(RepromptReply), Undefined)

\* the confirmation question: rooms is answers.rooms_count || <default>
ConfirmQuestion(answers) ==
    Txt(ConfirmPrefix
        \o (IF Truthy(answers.rooms_count) THEN answers.rooms_count.chars ELSE DefaultRooms)
        \o ConfirmSuffix)

\* mutant: the step is advanced before the answer is stored
answerStepAdvancesFirst(map, chatId, text) ==
    LET st == MapGet(map, chatId)
        step == st.step + 1
    IN  IF st.step + 1 > Len(PROJECT_FLOW)
        THEN FlowResult(MapDelete(map, chatId), Null, Undefined)
        ELSE IF step < Len(PROJECT_FLOW)
        THEN FlowResult(MapSet(map, chatId,
                               [st EXCEPT !.answers[PROJECT_FLOW[step + 1].key] = Txt(text),
                                          !.step = step]),
                        Txt(PROJECT_FLOW[step + 1].text), Undefined)
        ELSE FlowResult(MapSet(map, chatId,
                               [st EXCEPT !.step = step, !.waitingForAssignConfirm = TRUE]),
                        ConfirmQuestion(st.answers), Undefined)

\* the question-answer flow; PROJECT_FLOW[state.step] of the source is
\* PROJECT_FLOW[st.step + 1] of this 1-based sequence
answerStep(map, chatId, text) ==
    LET st == MapGet(map, chatId)
    IN  IF st.step + 1 > Len(PROJECT_FLOW)
        THEN FlowResult(MapDelete(map, chatId), Null, Undefined)
        ELSE LET answers == [st.answers EXCEPT ![PROJECT_FLOW[st.step + 1].key] = Txt(text)]
                 step == st.step + 1
             IN  IF step < Len(PROJECT_FLOW)
                 THEN FlowResult(MapSet(map, chatId,
                                        [st EXCEPT !.answers = answers, !.step = step]),
                                 Txt(PROJECT_FLOW[step + 1].text), Undefined)
                 ELSE FlowResult(MapSet(map, chatId,
                                        [st EXCEPT !.answers = answers, !.step = step,
                                                   !.waitingForAssignConfirm = TRUE]),
                                 ConfirmQuestion(answers), Undefined)

\* rawText ?? '': the text of a call, which may be given as null or undefined
OrEmpty(rawText) == IF Nullish(rawText) THEN <<>> ELSE rawText.chars

\* mutant: any text opens the flow of a chat that has no state
handleProjectConversationOpensFlow(map, chatId, rawText) ==
    LET text == StrTrim(OrEmpty(rawText))
    IN  IF text = <<>> THEN FlowResult(map, Null, Undefined)
        ELSE IF text = StartCommand THEN startFlow(map, chatId)
        ELSE IF MapGet(map, chatId) = Undefined THEN startFlow(map, chatId)
        ELSE IF MapGet(map, chatId).waitingForAssignConfirm
        THEN confirmStep(map, chatId, text)
        ELSE answerStep(map, chatId, text)

handleProjectConversation(map, chatId, rawText) ==
    LET text == StrTrim(OrEmpty(rawText))
    IN  IF text = <<>> THEN FlowResult(map, Null, Undefined)
        ELSE IF text = StartCommand THEN startFlow(map, chatId)
        ELSE IF MapGet(map, chatId) = Undefined THEN FlowResult(map, Null, Undefined)
        ELSE IF MapGet(map, chatId).waitingForAssignConfirm
        THEN confirmStep(map, chatId, text)
        ELSE answerStep(map, chatId, text)

----------------------------------------------------------------------------
(* Inputs *)

\* utterances, as code units
TextHaan == <<"h", "a", "a", "n">>
TextHaanUpper == <<" ", "H", "a", "a", "n", ".">>
TextNahi == <<"n", "a", "h", "i">>
TextNahin == <<"n", "a", "h", "i", "n">>
TextNo == <<"n", "o">>
TextNahiinDev == <<"u0928", "u0939", "u0940", "u0902">>
TextMatKaroDev == <<"u092E", "u0924", " ", "u0915", "u0930", "u094B">>
TextHaanDev == <<"u0939", "u093E", "u0901">>
TextKarDoDanda == <<"u0915", "u0930", " ", "u0926", "u094B", "u0964">>
TextHaanKarDo == <<"h", "a", "a", "n", " ", "k", "a", "r", " ", "d", "o">>
TextBasTheekHai == <<"b", "a", "s", " ", "t", "h", "e", "e", "k", " ", "h", "a", "i">>
TextHaanNahi == <<"h", "a", "a", "n", " ", "n", "a", "h", "i">>
TextOk == <<"o", "k">>
TextJi == <<"j", "i">>
TextCancel == <<"c", "a", "n", "c", "e", "l">>
TextHi == <<"h", "i">>
TextHelloHaan == <<"H", "e", "l", "l", "o", " ", "h", "a", "a", "n">>
TextKal == <<"k", "a", "l", " ", "3", " ", "b", "a", "j", "e">>
TextQuote ==
    <<"3", " ", "o", "p", "t", "i", "o", "n", "s", ",", " ",
      "t", "i", "m", "e", "l", "i", "n", "e", " ", "5", " ", "d", "a", "y", "s", ",", " ",
      "a", "d", "v", "a", "n", "c", "e", " ", "3", "0", "%">>
TextEmpty == <<>>
\* quote requests
TextQuoteDo ==
    <<"q", "u", "o", "t", "e", " ", "d", "o">>
TextLabourMaterial ==
    <<"L", "a", "b", "o", "u", "r", " ", "a", "u", "r", " ", "M", "A", "T", "E", "R",
      "I", "A", "L", " ", "d", "o", "n", "o", ",", " ", "2", " ", "o", "p", "t", "i",
      "o", "n">>
TextOnlyLabour ==
    <<"s", "i", "r", "f", " ", "l", "a", "b", "o", "u", "r", ",", " ", "2", " ", "w",
      "e", "e", "k", "s">>
TextPercentAdvance ==
    <<"4", "0", "%", " ", "a", "d", "v", "a", "n", "c", "e", ",", " ", "1", " ", "m",
      "o", "n", "t", "h">>
TextAdvancePayment ==
    <<"a", "d", "v", "a", "n", "c", "e", " ", "p", "a", "y", "m", "e", "n", "t", " ",
      "2", "5", " ", "%">>
TextOnlyMaterial ==
    <<"m", "a", "t", "e", "r", "i", "a", "l", " ", "o", "n", "l", "y", " ", "5", "0",
      "%">>
TextTight ==
    <<"T", "i", "m", "e", "l", "i", "n", "e", " ", "1", "0", "d", "a", "y", "s", " ",
      "4", "o", "p", "t", "i", "o", "n", "s">>
TextAdvanceNoPercent ==
    <<"a", "d", "v", "a", "n", "c", "e", " ", "d", "e", "n", "a", " ", "h", "a", "i">>
\* longer than 15 code units, with a keyword inside
TextHaanBilkul ==
    <<"h", "a", "a", "n", " ", "b", "i", "l", "k", "u", "l", " ",
      "t", "h", "e", "e", "k", " ", "h", "a", "i">>
TextNaLongDev ==
    <<"u0928", "u093E", " ", "u0928", "u093E", " ", "u0928", "u093E", " ",
      "u0928", "u093E", " ", "u0928", "u093E", " ", "u0928", "u093E">>
\* at most 15 code units, with the same keyword inside
TextNaJiDev == <<"u0928", "u093E", " ", "u091C", "u0940">>

Texts ==
    {TextHaan, TextHaanUpper, TextNahi, TextNahin, TextNo, TextNahiinDev, TextMatKaroDev,
     TextHaanDev, TextKarDoDanda, TextHaanKarDo, TextBasTheekHai, TextHaanNahi, TextOk,
     TextJi, TextCancel, TextHi, TextHelloHaan, TextKal, TextQuote, TextEmpty,
     TextHaanBilkul, TextNaLongDev, TextNaJiDev}

LeadStatuses == {"NEW", "LEAD_CAPTURED"}

ConversationIntents ==
    {"GREETING", "NEW", "LEAD_CAPTURED", "LEAD_MODIFICATION", "SCHEDULE_SITE_VISIT"}

\* lastIntent?: an absent lastIntent
NoLastIntent == "undefined"

LeadIds == {Undefined, Str(""), Str("x")}

States ==
    [leadStatus : LeadStatuses,
     lastIntent : ConversationIntents \cup {NoLastIntent},
     leadId : LeadIds]

HighLevelIntents ==
    {"GREETING", "NEW_LEAD", "GENERATE_QUOTE_OPTIONS", "UPDATE_EXISTING_LEAD",
     "LOG_MEASUREMENT", "GENERAL_QUESTION", "OTHER"}

LeadHints == {Null, Str(""), Str("HSR 2BHK")}

\* no intent, every intent without a hint, and the two hinted intents that echo it
Intents ==
    {Undefined}
    \cup [intent : HighLevelIntents, lead_hint : {Null}]
    \cup [intent : {"UPDATE_EXISTING_LEAD", "LOG_MEASUREMENT"}, lead_hint : LeadHints]

\* LeadAnalysis records: everything present, nothing present, one field missing
FullLead ==
    [customer |-> [name |-> Str("Rahil"), phone |-> Str("+919800000000")],
     location_text |-> Str("HSR"),
     job_type |-> Str("painting"),
     urgency |-> Str("tomorrow")]

EmptyLead ==
    [customer |-> [name |-> Null, phone |-> Null],
     location_text |-> Null,
     job_type |-> Str("unknown"),
     urgency |-> Str("unknown")]

Leads ==
    {FullLead, EmptyLead,
     [FullLead EXCEPT !.customer.name = Null],
     [FullLead EXCEPT !.customer.phone = Str("")],
     [FullLead EXCEPT !.location_text = Null],
     [FullLead EXCEPT !.job_type = Str("unknown")],
     [FullLead EXCEPT !.urgency = Str("unknown")]}

Analyses ==
    {[success |-> TRUE, data |-> d, error |-> Undefined] : d \in Leads \cup {Undefined}}
    \cup {[success |-> FALSE, data |-> Undefined, error |-> e] :
            e \in {Undefined, Str("Gemini down")}}

\* a measurement field: absent, null, or a number
BhkValues == {Undefined, Null, Num(0), Num(2)}
AreaValues == {Undefined, Null, Num(0), Num(800)}

Measurements ==
    {Undefined} \cup [bhk : BhkValues, sqft : AreaValues, paintable_area : AreaValues]


----------------------------------------------------------------------------
(* State machine: a caller that threads newState through the orchestrator *)

NoInput == [none |-> TRUE]
NoOutput == [none |-> TRUE]

OrchestratorInput(text, st, analysis, intent, measurements) ==
    [text |-> text, state |-> st, analysis |-> analysis, intent |-> intent,
     measurements |-> measurements]

\* the state a conversation is created with: { leadStatus: 'NEW' }, leadId as bound
InitialStates == {[leadStatus |-> "NEW", lastIntent |-> NoLastIntent, leadId |-> l] :
                    l \in LeadIds}

\* one turn: the stored state goes in, the returned state is stored
Turn(text, analysis, intent, measurements) ==
    /\ inp' = OrchestratorInput(text, state, analysis, intent, measurements)
    /\ out' = runLeadOrchestrator(inp')
    /\ state' = out'.newState

\* the inputs of the conversation
ConvTexts == {TextHaan, TextNahi, TextHaanNahi, TextHi, TextKal}

ConvIntents == {Undefined} \cup [intent : HighLevelIntents, lead_hint : {Null}]

ConvAnalyses ==
    {[success |-> TRUE, data |-> FullLead, error |-> Undefined],
     [success |-> TRUE, data |-> [FullLead EXCEPT !.customer.name = Null],
      error |-> Undefined],
     [success |-> FALSE, data |-> Undefined, error |-> Undefined]}

ConvMeasurements ==
    {Undefined, [bhk |-> Undefined, sqft |-> Num(800), paintable_area |-> Undefined]}

Init ==
    /\ state \in InitialStates
    /\ inp = NoInput
    /\ out = NoOutput

Next ==
    \E text \in ConvTexts, analysis \in ConvAnalyses, intent \in ConvIntents,
       measurements \in ConvMeasurements :
        Turn(text, analysis, intent, measurements)

Spec == Init /\ [][Next]_vars

----------------------------------------------------------------------------
(* Single calls: the orchestrator applied to every input of a bounded set *)

\* the call of runLeadOrchestrator on the input drawn by the initial state
Call ==
    /\ inp # NoInput
    /\ out = NoOutput
    /\ out' = runLeadOrchestrator(inp)
    /\ state' = out'.newState
    /\ UNCHANGED inp

TurnAnalyses ==
    {[success |-> TRUE, data |-> d, error |-> Undefined] :
        d \in {FullLead, EmptyLead, [FullLead EXCEPT !.customer.name = Null], Undefined}}
    \cup {[success |-> FALSE, data |-> Undefined, error |-> e] :
            e \in {Undefined, Str("Gemini down")}}

TurnMeasurements ==
    {Undefined, [bhk |-> Undefined, sqft |-> Num(800), paintable_area |-> Undefined]}

\* any state, text, intent and analysis
InitTurn ==
    /\ state \in States
    /\ \E text \in Texts, analysis \in TurnAnalyses, intent \in Intents,
          measurements \in TurnMeasurements :
        inp = OrchestratorInput(text, state, analysis, intent, measurements)
    /\ out = NoOutput

SpecTurn == InitTurn /\ [][Call]_vars

QuoteTexts == {TextQuote}

QuoteAnalyses ==
    {[success |-> TRUE, data |-> FullLead, error |-> Undefined],
     [success |-> FALSE, data |-> Undefined, error |-> Undefined]}

\* any state, intent and measurements
InitQuote ==
    /\ state \in States
    /\ \E text \in QuoteTexts, analysis \in QuoteAnalyses, intent \in Intents,
          measurements \in Measurements :
        inp = OrchestratorInput(text, state, analysis, intent, measurements)
    /\ out = NoOutput

SpecQuote == InitQuote /\ [][Call]_vars


----------------------------------------------------------------------------
(* Quote requests that pass the gate, over a set of utterances *)

RequirementTexts ==
    {TextQuote, TextQuoteDo, TextLabourMaterial, TextOnlyLabour, TextPercentAdvance,
     TextAdvancePayment, TextOnlyMaterial, TextTight, TextAdvanceNoPercent}

RequirementMeasurements ==
    {[bhk |-> Undefined, sqft |-> Num(800), paintable_area |-> Undefined],
     [bhk |-> Num(2), sqft |-> Null, paintable_area |-> Num(650)]}

\* any state, a quote intent and an area measurement
InitRequirements ==
    /\ state \in States
    /\ \E text \in RequirementTexts, analysis \in QuoteAnalyses,
          measurements \in RequirementMeasurements :
        inp = OrchestratorInput(text, state, analysis,
                                [intent |-> "GENERATE_QUOTE_OPTIONS", lead_hint |-> Null],
                                measurements)
    /\ out = NoOutput

SpecRequirements == InitRequirements /\ [][Call]_vars

----------------------------------------------------------------------------
(* The Missing-Field Resolver applied to every record of a bounded set *)

\* LeadAnalysis records: each nullable string null, empty or set; each enum
\* 'unknown' or set
FieldLeads ==
    [customer : [name : {Null, Str(""), Str("Rahil")},
                 phone : {Null, Str(""), Str("+919800000000")}],
     location_text : {Null, Str(""), Str("HSR")},
     job_type : {Str("unknown"), Str("painting")},
     urgency : {Str("unknown"), Str("tomorrow")}]

FollowupInput(analysis, intent) == [analysis |-> analysis, intent |-> intent]

InitFollowup ==
    /\ state \in InitialStates
    /\ \E analysis \in FieldLeads, intent \in Intents :
        inp = FollowupInput(analysis, intent)
    /\ out = NoOutput

\* the call of generateFollowupQuestions on the input drawn by the initial state
CallFollowup ==
    /\ inp # NoInput
    /\ out = NoOutput
    /\ out' = generateFollowupQuestions(inp.analysis, inp.intent)
    /\ UNCHANGED <<state, inp>>

SpecFollowup == InitFollowup /\ [][CallFollowup]_vars

----------------------------------------------------------------------------
(* State machines of the step flow: one chat, and two chats in any interleaving *)

Chats == {101, 102}

TextStartPadded == <<" ">> \o StartCommand \o <<" ">>
TextBlank == <<" ">>
TextFlat == <<"2", " ", "b", "h", "k", " ", "f", "l", "a", "t">>
TextTeenKamre == <<"t", "e", "e", "n", " ", "k", "a", "m", "r", "e">>
\* Gujarati "ha nahin": at most 15 code units, the yes and the no fallback both match
TextHaNahinGuj == <<"u0AB9", "u0ABE", " ", "u0AA8", "u0AB9", "u0AC0", "u0A82">>

TextFlatPadded == <<" ">> \o TextFlat \o <<"\n">>

FlowTexts ==
    {StartCommand, TextStartPadded, TextBlank, TextFlat, TextFlatPadded, TextTeenKamre,
     TextKarDoDanda, TextMatKaroDev, TextBasTheekHai, TextHaNahinGuj}

\* a Map that holds the state of one chat only
OnlyChat(chatId, st) == [b \in Chats |-> IF b = chatId THEN st ELSE Undefined]

\* the answers a state holds
AnswersOf(st) ==
    IF st = Undefined THEN {}
    ELSE {st.answers.work_location, st.answers.rooms_count} \ {Undefined}

\* state.conversationState is the process-wide Map. Two histories go with it:
\* alone[c] is the state of chat c had its calls run on a Map of its own, with
\* aloneResult the result of the last such call; stale[c] holds the answers the
\* last start command of chat c discarded and that were not given again since;
\* since[c] is the first two non-empty texts (trimmed) that chat c sent after its
\* last start command; saved[c] tells that a call of chat c has returned a
\* savePayload and the chat has sent no start command since.
InitFlow ==
    /\ state = [conversationState |-> [c \in Chats |-> Undefined],
                alone |-> [c \in Chats |-> Undefined],
                aloneResult |-> Undefined,
                stale |-> [c \in Chats |-> {}],
                since |-> [c \in Chats |-> <<>>],
                saved |-> [c \in Chats |-> FALSE]]
    /\ inp = NoInput
    /\ out = NoOutput

\* one call of handleProjectConversation
Handle(chatId, rawText) ==
    \E r \in {handleProjectConversation(state.conversationState, chatId, rawText)},
       a \in {handleProjectConversation(OnlyChat(chatId, state.alone[chatId]), chatId, rawText)} :
    LET before == MapGet(state.conversationState, chatId)
    IN  /\ inp' = [chatId |-> chatId, rawText |-> rawText]
        /\ out' = r.result
        /\ state' =
            [conversationState |-> r.conversationState,
             alone |-> [state.alone EXCEPT ![chatId] = a.conversationState[chatId]],
             aloneResult |-> a.result,
             stale |-> [state.stale EXCEPT ![chatId] =
                           IF StrTrim(OrEmpty(rawText)) = StartCommand THEN AnswersOf(before)
                           ELSE IF before # Undefined /\ ~before.waitingForAssignConfirm
                           THEN @ \ {Txt(StrTrim(OrEmpty(rawText)))}
                           ELSE @],
             since |-> [state.since EXCEPT ![chatId] =
                           IF StrTrim(OrEmpty(rawText)) = StartCommand THEN <<>>
                           ELSE IF StrTrim(OrEmpty(rawText)) # <<>> /\ Len(@) < Len(PROJECT_FLOW)
                           THEN Append(@, StrTrim(OrEmpty(rawText)))
                           ELSE @],
             saved |-> [state.saved EXCEPT ![chatId] =
                           IF StrTrim(OrEmpty(rawText)) = StartCommand THEN FALSE
                           ELSE @ \/ r.result.savePayload # Undefined]]

\* the calls of one chat, over every kind of text
\* what a caller can pass as rawText: a string, null or undefined
FlowInputs == {Txt(text) : text \in FlowTexts} \cup {Null, Undefined}

NextFlow == \E rawText \in FlowInputs : Handle(101, rawText)

SpecFlow == InitFlow /\ [][NextFlow]_vars

\* the calls of two chats in any interleaving
ChatTexts == {StartCommand, TextFlat, TextKarDoDanda, TextBasTheekHai}

NextChats == \E chatId \in Chats, text \in ChatTexts : Handle(chatId, Txt(text))

SpecChats == InitFlow /\ [][NextChats]_vars

----------------------------------------------------------------------------
(* The webhook handler (POST) in front of the step flow *)

\* the '\nAudio:' that separates a transcript from the link of its recording
AudioMark == <<"\n", "A", "u", "d", "i", "o", ":">>

AudioUrl == <<" ", "s", "3">>

GetFileFailed ==
    <<"[", "V", "o", "i", "c", "e", " ", "m", "e", "s", "s", "a", "g", "e", " ", "u2013", " ",
      "g", "e", "t", "F", "i", "l", "e", " ", "f", "a", "i", "l", "e", "d", "]">>

DownloadFailed ==
    <<"[", "V", "o", "i", "c", "e", " ", "m", "e", "s", "s", "a", "g", "e", " ", "u2013", " ",
      "d", "o", "w", "n", "l", "o", "a", "d", " ", "f", "a", "i", "l", "e", "d", "]">>

TranscriptionUnavailable ==
    <<"[", "T", "r", "a", "n", "s", "c", "r", "i", "p", "t", "i", "o", "n", " ",
      "u", "n", "a", "v", "a", "i", "l", "a", "b", "l", "e", "]">>

UploadFailedNote ==
    <<"\n", "[", "A", "u", "d", "i", "o", ":", " ", "S", "3", " ", "u", "p", "l", "o", "a", "d",
      " ", "f", "a", "i", "l", "e", "d", "]">>

UploadFailed ==
    <<"[", "V", "o", "i", "c", "e", " ", "m", "e", "s", "s", "a", "g", "e", " ", "u2013", " ",
      "S", "3", " ", "u", "p", "l", "o", "a", "d", " ", "f", "a", "i", "l", "e", "d", "]">>

\* what the services behind processVoiceMessage can answer: the file path and
\* the download (fetched), the upload (stored) and the transcription (heard)
VoiceOutcomes ==
    {[fetched |-> "getFile failed", stored |-> FALSE, heard |-> FALSE],
     [fetched |-> "download failed", stored |-> FALSE, heard |-> FALSE]}
    \cup [fetched : {"ok"}, stored : BOOLEAN, heard : BOOLEAN]

\* the message text of a voice update whose speech is transcript
processVoiceMessage(transcript, outcome) ==
    IF outcome.fetched = "getFile failed" THEN GetFileFailed
    ELSE IF outcome.fetched = "download failed" THEN DownloadFailed
    ELSE IF outcome.stored
    THEN (IF outcome.heard THEN transcript ELSE TranscriptionUnavailable)
         \o AudioMark \o AudioUrl
    ELSE IF outcome.heard THEN transcript \o UploadFailedNote
    ELSE UploadFailed

\* messageText.split('\nAudio:')[0]
BeforeAudioMark(s) ==
    LET at == {i \in 0..(Len(s) - Len(AudioMark)) :
                  SubSeq(s, i + 1, i + Len(AudioMark)) = AudioMark}
    IN  SubSeq(s, 1, CHOOSE i \in at : \A j \in at : i <= j)

rawTextForConversation(messageText) ==
    IF Includes(messageText, AudioMark)
    THEN StrTrim(BeforeAudioMark(messageText))
    ELSE messageText

\* updates sent within one run, all chats together
MaxUpdates == 3

\* what the users type or say
UpdateTexts == {StartCommand, TextFlat, TextTeenKamre}

\* mutant: the handler acknowledges an update on receipt and works on it afterwards
RespondedOnReceipt(call) == TRUE

\* the transport has the handler's response to a call: POST returns its
\* response after every await of the call
Responded(call) == call.pc = "done"

\* state.calls are the invocations of POST, each at its next await; a call is
\* named by its chat and by n, its place in the order of arrival of the chat's
\* updates; state.applied[c] lists, in the order of the calls of
\* handleProjectConversation, the places of the updates applied to chat c
InitWebhook ==
    /\ state = [conversationState |-> [c \in Chats |-> Undefined],
                calls |-> {},
                arrived |-> [c \in Chats |-> 0],
                applied |-> [c \in Chats |-> <<>>]]
    /\ inp = NoInput
    /\ out = NoOutput

\* the updates posted so far
Arrivals == state.arrived[101] + state.arrived[102]

\* the transport posts the next update of chat c: one update at a time per
\* chat, the next one after the response to the one before
Deliver(c, text, voice) ==
    /\ Arrivals < MaxUpdates
    /\ \A call \in state.calls : call.chatId = c => Responded(call)
    /\ state' = [state EXCEPT
                    !.arrived[c] = @ + 1,
                    !.calls = @ \cup {[chatId |-> c, n |-> state.arrived[c] + 1,
                                       messageText |-> text,
                                       pc |-> IF voice THEN "voice" ELSE "conversation"]}]
    /\ UNCHANGED <<inp, out>>

\* await processVoiceMessage(voice) returns
VoiceProcessed(call, outcome) ==
    /\ call.pc = "voice"
    /\ state' = [state EXCEPT
                    !.calls = (@ \ {call}) \cup
                        {[call EXCEPT !.messageText = processVoiceMessage(@, outcome),
                                      !.pc = "conversation"]}]
    /\ UNCHANGED <<inp, out>>

\* handleProjectConversation runs on the chat's state (it holds no await)
ConversationHandled(call) ==
    /\ call.pc = "conversation"
    /\ \E r \in {handleProjectConversation(state.conversationState, call.chatId,
                                           Txt(rawTextForConversation(call.messageText)))} :
        /\ inp' = [chatId |-> call.chatId, rawText |-> Txt(rawTextForConversation(call.messageText))]
        /\ out' = r.result
        /\ state' = [state EXCEPT
                        !.conversationState = r.conversationState,
                        !.applied[call.chatId] = Append(@, call.n),
                        !.calls = (@ \ {call}) \cup {[call EXCEPT !.pc = "reply"]}]

\* the payload is saved and the reply sent (awaits that leave the step-flow
\* state alone), then POST returns its response and its variables are gone
ResponseReturned(call) ==
    /\ call.pc = "reply"
    /\ state' = [state EXCEPT
                    !.calls = (@ \ {call}) \cup
                        {[call EXCEPT !.pc = "done", !.messageText = <<>>]}]
    /\ UNCHANGED <<inp, out>>

NextWebhook ==
    \/ \E c \in Chats, text \in UpdateTexts, voice \in BOOLEAN : Deliver(c, text, voice)
    \/ \E call \in state.calls, outcome \in VoiceOutcomes : VoiceProcessed(call, outcome)
    \/ \E call \in state.calls : ConversationHandled(call)
    \/ \E call \in state.calls : ResponseReturned(call)

SpecWebhook == InitWebhook /\ [][NextWebhook]_vars

----------------------------------------------------------------------------
(* The orchestrator on every record of the bounded set of analyses *)

RecapTexts == {TextKal, TextHaan}

\* any state and intent, a successful analysis with any record of FieldLeads
InitRecap ==
    /\ state \in States
    /\ \E text \in RecapTexts, data \in FieldLeads, intent \in ConvIntents :
        inp = OrchestratorInput(text, state,
                                [success |-> TRUE, data |-> data, error |-> Undefined],
                                intent, Undefined)
    /\ out = NoOutput

SpecRecap == InitRecap /\ [][Call]_vars

----------------------------------------------------------------------------
(* Vocabulary of the properties *)

\* a call has been made: out is the orchestrator's answer to inp
Called == inp # NoInput /\ out # NoOutput

\* a project is bound when leadId is a non-empty string
LeadBound(st) == Truthy(st.leadId)

IntentIs(input, names) ==
    input.intent # Undefined /\ input.intent.intent \in names

\* rules 1 to 4 of the precedence ladder: the classified intent decides the turn
DecidedByIntent(input) ==
    \/ IntentIs(input, {"GREETING", "GENERAL_QUESTION", "GENERATE_QUOTE_OPTIONS",
                        "LOG_MEASUREMENT"})
    \/ (IntentIs(input, {"UPDATE_EXISTING_LEAD"}) /\ ~LeadBound(input.state))

\* rules 1 to 5: the intent or the greeting heuristic decides the turn
DecidedByRules1to5(input) == DecidedByIntent(input) \/ detectGreeting(input.text)

\* a confirmation is pending
Pending(st) == st.lastIntent = "LEAD_CAPTURED" /\ st.leadStatus = "NEW"

\* the resolver's contract over the orchestrator's two checks: YES and NO need
\* exactly one check to fire
Resolve(text) ==
    IF detectYes(text) /\ ~detectNo(text) THEN "YES"
    ELSE IF detectNo(text) /\ ~detectYes(text) THEN "NO"
    ELSE "AMBIGUOUS"

\* the outcome the step flow acts on while waitingForAssignConfirm is set
stepFlowResolve(text) ==
    IF isYes(text) THEN "YES" ELSE IF isNo(text) THEN "NO" ELSE "AMBIGUOUS"

\* a field of the analysis carries a value
Present(v) == Truthy(v) /\ v # Str("unknown")

AllPresent(analysis) ==
    /\ analysis.success
    /\ ~Nullish(analysis.data)
    /\ Present(analysis.data.customer.name)
    /\ Present(analysis.data.customer.phone)
    /\ Present(analysis.data.location_text)
    /\ Present(analysis.data.job_type)
    /\ Present(analysis.data.urgency)

\* the dependency types an output carries, [] when it carries none
DependencyTypes(o) ==
    IF o.dependencies = Undefined THEN <<>>
    ELSE [i \in 1..Len(o.dependencies.arr) |-> o.dependencies.arr[i].type]

HasType(types, t) == \E i \in 1..Len(types) : types[i] = t

\* a measurement field carries a number (0 included)
HasNumber(measurements, field) ==
    measurements # Undefined /\ ~Nullish(measurements[field])

----------------------------------------------------------------------------
(* C1 .. C10 *)

C2_QuoteGate ==
    Called =>
        /\ out.toolCall # Undefined =>
            /\ IntentIs(inp, {"GENERATE_QUOTE_OPTIONS"})
            /\ LeadBound(inp.state)
            /\ (HasNumber(inp.measurements, "sqft")
                \/ HasNumber(inp.measurements, "paintable_area"))
            /\ out.dependencies = Undefined
            /\ out.toolCall.name = "generate_quote_options"
            /\ out.toolCall.arguments.leadId = inp.state.leadId
        /\ IntentIs(inp, {"GENERATE_QUOTE_OPTIONS"}) =>
            /\ (~LeadBound(inp.state)
                \/ ~(HasNumber(inp.measurements, "sqft")
                     \/ HasNumber(inp.measurements, "paintable_area")))
               => (/\ out.dependencies # Undefined
                   /\ Len(out.dependencies.arr) > 0
                   /\ out.toolCall = Undefined)
            /\ out.newState = [inp.state EXCEPT !.lastIntent = "NEW"]

\* C2 happens: a quote turn returned the tool call.
C2_Witness ==
    /\ Called
    /\ out.toolCall # Undefined
    /\ inp.state.leadId = Str("x")

\* the recap turn of C3: from { leadStatus: NEW }, not decided by rules 1-5, with
\* every field of a successful analysis present
RecapCase(input) ==
    /\ input # NoInput
    /\ input.state.leadStatus = "NEW"
    /\ input.state.lastIntent = NoLastIntent
    /\ ~DecidedByRules1to5(input)
    /\ AllPresent(input.analysis)

\* C3: the recap turn replies with the recap and returns lastIntent = LEAD_CAPTURED
\* with leadStatus NEW; the next turn, text "haan" with no intent, on the returned
\* state asks for the site visit and returns LEAD_CAPTURED / SCHEDULE_SITE_VISIT.
C3_EndToEndCapture ==
    [][/\ RecapCase(inp') =>
            /\ out'.reply = generateConfirmation(inp'.analysis.data)
            /\ out'.newState = [inp'.state EXCEPT !.lastIntent = "LEAD_CAPTURED"]
            /\ out'.newState.leadStatus = "NEW"
       /\ (RecapCase(inp) /\ inp'.text = TextHaan /\ inp'.intent = Undefined) =>
            /\ inp'.state = out.newState
            /\ out'.reply = SiteVisitReply
            /\ out'.newState.leadStatus = "LEAD_CAPTURED"
            /\ out'.newState.lastIntent = "SCHEDULE_SITE_VISIT"]_vars

\* C3 happens: "haan" with no intent answered a pending recap and captured the lead.
C3_Witness ==
    /\ Called
    /\ inp.text = TextHaan
    /\ inp.intent = Undefined
    /\ Pending(inp.state)
    /\ out.reply = SiteVisitReply
    /\ state.leadStatus = "LEAD_CAPTURED"

\* C4: with a confirmation pending and no rule 1-5 deciding, a YES text gives
\* leadStatus = LEAD_CAPTURED and lastIntent = SCHEDULE_SITE_VISIT, a NO text (as
\* "nahi", "nahin", "no" and the two Devanagari phrases are) gives lastIntent =
\* LEAD_MODIFICATION with leadStatus NEW; leadId is the input's in both cases.
C4_ConfirmationOutcome ==
    (Called /\ Pending(inp.state) /\ ~DecidedByRules1to5(inp)) =>
        /\ inp.text \in {TextNahi, TextNahin, TextNo, TextNahiinDev, TextMatKaroDev} =>
                Resolve(inp.text) = "NO"
        /\ Resolve(inp.text) = "YES" =>
                out.newState = [inp.state EXCEPT !.leadStatus = "LEAD_CAPTURED",
                                                 !.lastIntent = "SCHEDULE_SITE_VISIT"]
        /\ Resolve(inp.text) = "NO" =>
                out.newState = [inp.state EXCEPT !.lastIntent = "LEAD_MODIFICATION"]

\* C4 happens: a NO text answered a pending recap of a bound lead.
C4_Witness ==
    /\ Called
    /\ Pending(inp.state)
    /\ ~DecidedByRules1to5(inp)
    /\ inp.text = TextMatKaroDev
    /\ inp.state.leadId = Str("x")
    /\ out.newState.lastIntent = "LEAD_MODIFICATION"

\* C5: with a confirmation pending and no rule 1-5 deciding, a text on which both
\* checks fire, or neither, changes nothing in rule 6: the turn gets neither the
\* YES nor the NO outcome and is decided by rules 7-10.
C5_AmbiguousFallsThrough ==
    (Called /\ Pending(inp.state) /\ ~DecidedByRules1to5(inp)
       /\ Resolve(inp.text) = "AMBIGUOUS") =>
        /\ out.reply \notin {SiteVisitReply, ModificationReply}
        /\ out.newState.lastIntent \notin {"SCHEDULE_SITE_VISIT", "LEAD_MODIFICATION"}
        /\ out.newState.leadStatus = "NEW"

\* C6: the orchestrator's pending-confirmation rule and the step flow's
\* confirmation step classify every text alike.
C6_SharedResolver ==
    (Called /\ Pending(inp.state) /\ ~DecidedByRules1to5(inp)) =>
        /\ out.reply = SiteVisitReply <=> stepFlowResolve(inp.text) = "YES"
        /\ out.reply = ModificationReply <=> stepFlowResolve(inp.text) = "NO"

\* C7: with a confirmation pending, a turn that one of rules 1-5 decides keeps
\* leadStatus NEW and returns lastIntent GREETING or NEW, affirmative text or not.
C7_EarlierRuleWins ==
    (Called /\ Pending(inp.state) /\ DecidedByRules1to5(inp)) =>
        /\ out.newState.leadStatus = "NEW"
        /\ out.newState.lastIntent \in {"GREETING", "NEW"}
        /\ out.reply \notin {SiteVisitReply, ModificationReply}

\* C7 happens: an affirmative text that starts with a greeting, no intent supplied.
C7_Witness ==
    /\ Called
    /\ Pending(inp.state)
    /\ inp.intent = Undefined
    /\ inp.text = TextHelloHaan
    /\ detectYes(inp.text)
    /\ out.newState.lastIntent = "GREETING"

\* C8: intent GREETING gives the fixed greeting and GENERAL_QUESTION the fixed
\* redirect prompt; both return the input state with lastIntent = GREETING.
C8_GreetingIntent ==
    Called =>
        /\ IntentIs(inp, {"GREETING"}) => out.reply = GreetingReply
        /\ IntentIs(inp, {"GENERAL_QUESTION"}) => out.reply = GeneralQuestionReply
        /\ IntentIs(inp, {"GREETING", "GENERAL_QUESTION"}) =>
            /\ out.newState = [inp.state EXCEPT !.lastIntent = "GREETING"]
            /\ out.toolCall = Undefined
            /\ out.dependencies = Undefined
            /\ out.missing = Undefined

\* C8 happens: a GENERAL_QUESTION turn on a captured lead that awaits a visit time.
C8_Witness ==
    /\ Called
    /\ IntentIs(inp, {"GENERAL_QUESTION"})
    /\ inp.state.leadStatus = "LEAD_CAPTURED"
    /\ inp.state.lastIntent = "SCHEDULE_SITE_VISIT"
    /\ out.newState.lastIntent = "GREETING"

\* the lists that keep the order PROJECT, MEASUREMENT, SQFT without duplicates
OrderedDependencyLists ==
    {<<>>,
     <<"PROJECT_REQUIRED">>, <<"MEASUREMENT_REQUIRED">>, <<"SQFT_REQUIRED">>,
     <<"PROJECT_REQUIRED", "MEASUREMENT_REQUIRED">>,
     <<"PROJECT_REQUIRED", "SQFT_REQUIRED">>,
     <<"MEASUREMENT_REQUIRED", "SQFT_REQUIRED">>,
     <<"PROJECT_REQUIRED", "MEASUREMENT_REQUIRED", "SQFT_REQUIRED">>}

OnlyBhk == [bhk |-> Num(2), sqft |-> Undefined, paintable_area |-> Undefined]
OnlySqft == [bhk |-> Undefined, sqft |-> Num(800), paintable_area |-> Undefined]

\* C9: for GENERATE_QUOTE_OPTIONS the list has PROJECT_REQUIRED iff no lead is
\* bound and MEASUREMENT_REQUIRED iff bhk, sqft and paintable_area are all
\* null/absent, in the order PROJECT, MEASUREMENT, SQFT; the three examples give
\* [PROJECT_REQUIRED, MEASUREMENT_REQUIRED], [SQFT_REQUIRED] and [].
C9_DependencyList ==
    (Called /\ IntentIs(inp, {"GENERATE_QUOTE_OPTIONS"})) =>
        LET types == DependencyTypes(out)
            m == inp.measurements
        IN  /\ HasType(types, "PROJECT_REQUIRED") <=> ~LeadBound(inp.state)
            /\ HasType(types, "MEASUREMENT_REQUIRED") <=>
                    ~(\/ HasNumber(m, "bhk") \/ HasNumber(m, "sqft")
                      \/ HasNumber(m, "paintable_area"))
            /\ types \in OrderedDependencyLists
            /\ (inp.state.leadId = Undefined /\ m = Undefined) =>
                    types = <<"PROJECT_REQUIRED", "MEASUREMENT_REQUIRED">>
            /\ (inp.state.leadId = Str("x") /\ m = OnlyBhk) => types = <<"SQFT_REQUIRED">>
            /\ (inp.state.leadId = Str("x") /\ m = OnlySqft) => types = <<>>

\* C9 happens: both the project check and the measurement check fired in one turn.
C9_Witness ==
    /\ Called
    /\ IntentIs(inp, {"GENERATE_QUOTE_OPTIONS"})
    /\ inp.state.leadId = Undefined
    /\ inp.measurements = Undefined
    /\ DependencyTypes(out) = <<"PROJECT_REQUIRED", "MEASUREMENT_REQUIRED">>

\* C10: SQFT_REQUIRED is in the list exactly when a measurement signal is present
\* and neither sqft nor paintable_area carries a number (0 is a number), and it
\* never comes with MEASUREMENT_REQUIRED.
C10_SqftRequired ==
    (Called /\ IntentIs(inp, {"GENERATE_QUOTE_OPTIONS"})) =>
        LET types == DependencyTypes(out)
            m == inp.measurements
        IN  /\ HasType(types, "SQFT_REQUIRED") <=>
                    /\ HasNumber(m, "bhk")
                    /\ ~HasNumber(m, "sqft")
                    /\ ~HasNumber(m, "paintable_area")
            /\ ~(HasType(types, "SQFT_REQUIRED") /\ HasType(types, "MEASUREMENT_REQUIRED"))

----------------------------------------------------------------------------
(* C11 .. C20 *)

\* the question of rules 3 and 4, as sent for an update and for a measurement
WhichProjectUpdate ==
    "Ye update kisi purane project ke liye lag raha hai. "
    \o "Please batao kis project ke liye -- customer ka naam, area (HSR / Whitefield / JP Nagar) "
    \o "ya approximate date (jaise kal ka site visit) taaki main sahi project choose kar saku."

WhichProjectMeasurement ==
    "Ye measurement kisi purane project ke liye lag raha hai. "
    \o "Please batao kis project ke liye -- customer ka naam, area (HSR / Whitefield / JP Nagar) "
    \o "ya approximate date (jaise kal ka site visit) taaki main sahi project choose kar saku."

HintEcho == "Aap shayad \"HSR 2BHK\" wale kaam ki baat kar rahe ho. "

WhichProjectReplies ==
    {WhichProjectUpdate, WhichProjectMeasurement,
     HintEcho \o WhichProjectUpdate, HintEcho \o WhichProjectMeasurement}

\* the turns of rules 3 and 4
NeedsLeadCase(input) ==
    \/ (IntentIs(input, {"UPDATE_EXISTING_LEAD", "LOG_MEASUREMENT"})
        /\ ~LeadBound(input.state))
    \/ (IntentIs(input, {"LOG_MEASUREMENT"}) /\ LeadBound(input.state))

\* C11: UPDATE_EXISTING_LEAD or LOG_MEASUREMENT without a bound lead, and
\* LOG_MEASUREMENT with one, return the input state with lastIntent = NEW and no
\* toolCall, dependencies or missing; the reply asks which project is meant
\* exactly when no lead is bound, and starts with the echo of lead_hint exactly
\* when the hint is non-empty.
C11_NeedsLeadContext ==
    (Called /\ NeedsLeadCase(inp)) =>
        LET question == IF inp.intent.intent = "LOG_MEASUREMENT"
                        THEN WhichProjectMeasurement ELSE WhichProjectUpdate
        IN  /\ out.newState = [inp.state EXCEPT !.lastIntent = "NEW"]
            /\ out.toolCall = Undefined
            /\ out.dependencies = Undefined
            /\ out.missing = Undefined
            /\ out.reply \in WhichProjectReplies <=> ~LeadBound(inp.state)
            /\ LeadBound(inp.state) => out.reply = MeasurementAckReply
            /\ ~LeadBound(inp.state) =>
                    out.reply = (IF inp.intent.lead_hint = Str("HSR 2BHK")
                                 THEN HintEcho \o question ELSE question)

\* C11 happens: a hinted measurement with no lead bound, on an affirmative text
\* while a confirmation is pending, asks which project is meant.
C11_Witness ==
    /\ Called
    /\ IntentIs(inp, {"LOG_MEASUREMENT"})
    /\ inp.intent.lead_hint = Str("HSR 2BHK")
    /\ ~LeadBound(inp.state)
    /\ Pending(inp.state)
    /\ inp.text = TextHaan
    /\ out.reply = HintEcho \o WhichProjectMeasurement
    /\ out.newState.lastIntent = "NEW"

\* rule 6 returns: a confirmation is pending and one of the two checks fires
DecidedByRule6(input) ==
    Pending(input.state) /\ (detectYes(input.text) \/ detectNo(input.text))

DecidedByRules1to6(input) == DecidedByRules1to5(input) \/ DecidedByRule6(input)

\* C12: when rules 1-6 do not decide and analysis.success is false, the reply is
\* the analysis error message when one is supplied and the generic retry prompt
\* otherwise, newState is the input state and nothing else is attached.
C12_AnalysisFailure ==
    (Called /\ ~DecidedByRules1to6(inp) /\ ~inp.analysis.success) =>
        /\ inp.analysis.error = Str("Gemini down") => out.reply = "Gemini down"
        /\ inp.analysis.error = Undefined =>
                out.reply = "Lead analyze karte waqt kuch problem aayi. Thodi der baad phir se try karoge?"
        /\ out.newState = inp.state
        /\ out.toolCall = Undefined
        /\ out.dependencies = Undefined
        /\ out.missing = Undefined

\* C12 happens: the analysis failed with a message while a confirmation was
\* pending and the text was neither a yes nor a no.
C12_Witness ==
    /\ Called
    /\ ~DecidedByRules1to6(inp)
    /\ ~inp.analysis.success
    /\ inp.analysis.error = Str("Gemini down")
    /\ Pending(inp.state)
    /\ IntentIs(inp, {"NEW_LEAD"})
    /\ inp.text = TextOk
    /\ out.reply = "Gemini down"
    /\ out.newState = inp.state

DecidedByRules1to7(input) == DecidedByRules1to6(input) \/ ~input.analysis.success

\* the recap of FullLead
FullLeadRecap ==
    "Mere hisaab se painting ka kaam samajh aa gaya hai aur saari important details mil gayi hain."
    \o " Quick recap -- Customer: Rahil, Location: HSR, Job: painting, Urgency: tomorrow."
    \o " Kya yeh sahi hai?"

\* C13: when rules 1-7 do not decide and the analysis succeeded with a record: a
\* non-empty missing map gives its questions joined in order, leadStatus = NEW,
\* lastIntent = NEW and the map attached; an empty one with leadStatus = NEW gives
\* the recap and the input state with lastIntent = LEAD_CAPTURED; an empty one
\* with leadStatus = LEAD_CAPTURED gives no recap, and rules 9-10 decide.
C13_FollowupOrRecap ==
    (Called /\ ~DecidedByRules1to7(inp) /\ ~Nullish(inp.analysis.data)) =>
        LET data == inp.analysis.data
            fq == generateFollowupQuestions(data, inp.intent)
        IN  /\ fq.missing # {} =>
                /\ out.reply = Join(fq.questions, "\n")
                /\ out.newState.leadStatus = "NEW"
                /\ out.newState.lastIntent = "NEW"
                /\ out.missing = Keys(fq.missing)
            /\ (fq.missing = {} /\ inp.state.leadStatus = "NEW") =>
                /\ out.reply = generateConfirmation(data)
                /\ out.newState = [inp.state EXCEPT !.lastIntent = "LEAD_CAPTURED"]
                /\ out.missing = Undefined
            /\ (fq.missing = {} /\ inp.state.leadStatus = "LEAD_CAPTURED") =>
                /\ out.reply \in {VisitDetailsReply, FallbackReply}
                /\ out.newState = inp.state
            /\ data = [FullLead EXCEPT !.customer.name = Null] =>
                /\ out.reply = "Customer ka naam kya hai?"
                /\ out.missing = Keys({"customer_name"})
            /\ data = EmptyLead =>
                out.reply = NameQuestion \o "\n" \o PhoneQuestion \o "\n" \o LocationQuestion
                            \o "\n" \o JobTypeQuestion \o "\n" \o UrgencyQuestion
            /\ data = FullLead =>
                (out.reply = FullLeadRecap <=> inp.state.leadStatus = "NEW")

\* C13 happens: nothing is missing for a captured lead, so no recap is sent.
C13_Witness ==
    /\ Called
    /\ ~DecidedByRules1to7(inp)
    /\ inp.analysis.data = FullLead
    /\ inp.state.leadStatus = "LEAD_CAPTURED"
    /\ inp.state.lastIntent = "LEAD_MODIFICATION"
    /\ inp.text = TextKal
    /\ out.reply = FallbackReply
    /\ out.newState = inp.state

\* a nullable string carries no value: null, or the empty string
NoValue(v) == v = Null \/ v = Str("")

C15_QuoteSkipsQuestions ==
    (Called /\ IntentIs(inp, {"GENERATE_QUOTE_OPTIONS"})) =>
        /\ out.missing = {}
        /\ out.questions = <<>>

\* C15 happens: a quote request with name, phone, location, job type and urgency
\* all unknown.
C15_Witness ==
    /\ Called
    /\ IntentIs(inp, {"GENERATE_QUOTE_OPTIONS"})
    /\ inp.analysis = EmptyLead
    /\ out.missing = {}
    /\ out.questions = <<>>

\* rule 8 returns: a record came back and something is missing or the lead is new
DecidedByRule8(input) ==
    /\ input.analysis.success
    /\ ~Nullish(input.analysis.data)
    /\ \/ generateFollowupQuestions(input.analysis.data, input.intent).missing # {}
       \/ input.state.leadStatus = "NEW"

DecidedByRules1to8(input) == DecidedByRules1to7(input) \/ DecidedByRule8(input)

\* C16: when no earlier rule decides, the reply is the date/time prompt with
\* lastIntent = SCHEDULE_SITE_VISIT and leadStatus = LEAD_CAPTURED and the generic
\* fallback otherwise; newState equals the input state and no toolCall,
\* dependencies or missing map is attached.
C16_ClosingRules ==
    (Called /\ ~DecidedByRules1to8(inp)) =>
        /\ out.reply =
                (IF inp.state.lastIntent = "SCHEDULE_SITE_VISIT"
                    /\ inp.state.leadStatus = "LEAD_CAPTURED"
                 THEN VisitDetailsReply ELSE FallbackReply)
        /\ VisitDetailsReply # FallbackReply
        /\ out.newState = inp.state
        /\ out.toolCall = Undefined
        /\ out.dependencies = Undefined
        /\ out.missing = Undefined

\* C16 happens: a captured lead that awaits a visit time gets the prompt again.
C16_Witness ==
    /\ Called
    /\ ~DecidedByRules1to8(inp)
    /\ inp.state.lastIntent = "SCHEDULE_SITE_VISIT"
    /\ inp.state.leadStatus = "LEAD_CAPTURED"
    /\ inp.state.leadId = Str("x")
    /\ inp.text = TextKal
    /\ out.reply = VisitDetailsReply
    /\ out.newState = inp.state

\* the replies of rule 2 for a quote request: the acknowledgement, and the
\* dependency message of every state and measurement record
QuoteReplies ==
    {quoteRule(OrchestratorInput(TextQuote, st,
                                 [success |-> TRUE, data |-> Undefined, error |-> Undefined],
                                 [intent |-> "GENERATE_QUOTE_OPTIONS", lead_hint |-> Null],
                                 m)).reply :
        st \in States, m \in Measurements}

\* the replies only rules 1-4 give, the greeting text aside
IntentOnlyReplies ==
    {GeneralQuestionReply, MeasurementAckReply} \cup WhichProjectReplies \cup QuoteReplies

\* C18: with no intent supplied the output carries no toolCall and no
\* dependencies, and the reply is none of the replies of rules 1-4 other than
\* the greeting text, for every text, state, analysis and measurements.
C18_NoIntentHeuristicsOnly ==
    (Called /\ inp.intent = Undefined) =>
        /\ out.toolCall = Undefined
        /\ out.dependencies = Undefined
        /\ out.reply \notin IntentOnlyReplies
        /\ QuoteAckReply \in IntentOnlyReplies

\* C18 happens: a quote request with a bound lead and an area, but no intent:
\* the greeting heuristic does not fire and the fallback answers.
C18_Witness ==
    /\ Called
    /\ inp.intent = Undefined
    /\ inp.text = TextQuote
    /\ inp.state.leadId = Str("x")
    /\ inp.state.lastIntent = "NEW"
    /\ inp.measurements # Undefined
    /\ ~Nullish(inp.measurements.sqft)
    /\ inp.analysis.success
    /\ Nullish(inp.analysis.data)
    /\ out.reply = FallbackReply
    /\ out.toolCall = Undefined

\* what the orchestrator made of the answer to a pending confirmation
orchestratorOutcome(o) ==
    IF o.reply = SiteVisitReply THEN "YES"
    ELSE IF o.reply = ModificationReply THEN "NO"
    ELSE "AMBIGUOUS"

\* the five examples of the resolver's contract
ResolverExamples ==
    << <<TextHaanDev, "YES">>, <<TextNahiinDev, "NO">>, <<TextKarDoDanda, "YES">>,
       <<TextHaanKarDo, "YES">>, <<TextBasTheekHai, "AMBIGUOUS">> >>

\* C19: both consumers of the resolver, the step flow's confirmation step and
\* the orchestrator's pending-confirmation rule, take the Devanagari yes as YES,
\* the Devanagari no as NO, "kar do" with a trailing danda as YES, "haan kar do"
\* as YES and "bas theek hai" as AMBIGUOUS.
C19_ResolverExamples ==
    (Called /\ Pending(inp.state) /\ ~DecidedByRules1to5(inp)) =>
        \A i \in 1..Len(ResolverExamples) :
            inp.text = ResolverExamples[i][1] =>
                /\ stepFlowResolve(inp.text) = ResolverExamples[i][2]
                /\ orchestratorOutcome(out) = ResolverExamples[i][2]

\* the text equals a listed phrase in its normalized, cleaned or raw-trimmed form
ListedPhrase(text) ==
    LET raw == StrTrim(text)
        cleaned == Cleaned(raw)
        normalized == ToLowerCase(cleaned)
    IN  \E list \in {yesValues, noValues, yesWords, noWords} :
            ListHas(list, normalized) \/ ListHas(list, cleaned) \/ ListHas(list, raw)

\* C20: a raw text of more than 15 characters that equals no listed phrase is
\* AMBIGUOUS for both consumers of the resolver, keyword inside or not.
C20_SubstringOnlyWhenShort ==
    (Called /\ Pending(inp.state) /\ ~DecidedByRules1to5(inp)
       /\ Len(StrTrim(inp.text)) > SubstringMaxLen /\ ~ListedPhrase(inp.text)) =>
        /\ stepFlowResolve(inp.text) = "AMBIGUOUS"
        /\ orchestratorOutcome(out) = "AMBIGUOUS"

----------------------------------------------------------------------------
(* C21 .. C30 *)

\* C21: when the quote gate is satisfied, "3 options, timeline 5 days, advance
\* 30%" gives requirements options = 3, timeline = "5 days", advance = 30 and
\* labour_and_material = false.
C21_ParameterExtraction ==
    (Called /\ out.toolCall # Undefined /\ inp.text = TextQuote) =>
        out.toolCall.arguments.requirements =
            [options |-> Num(3),
             timeline |-> Txt(<<"5", " ", "d", "a", "y", "s">>),
             advance |-> Num(30),
             labour_and_material |-> FALSE]

\* C21 happens: the gate was satisfied for that text and the tool call carries
\* the advance read from it.
C21_Witness ==
    /\ Called
    /\ inp.text = TextQuote
    /\ out.toolCall # Undefined
    /\ out.toolCall.arguments.requirements.advance = Num(30)
    /\ out.toolCall.arguments.requirements.timeline = Txt(<<"5", " ", "d", "a", "y", "s">>)

\* s holds a digit, optional white space and then one of the words
NumberThenWord(s, words) ==
    \E i \in 1..Len(s), j \in 1..(Len(s) + 1) :
        /\ i < j
        /\ s[i] \in Digits
        /\ \A k \in (i + 1)..(j - 1) : s[k] \in WhiteSpace
        /\ \E w \in words : LitAt(s, j, w)

\* what each utterance of RequirementTexts is to give
RequirementExamples ==
    << <<TextQuote, [options |-> Num(3), timeline |-> Txt(<<"5", " ", "d", "a", "y", "s">>),
          advance |-> Num(30), labour_and_material |-> FALSE]>>,
       <<TextQuoteDo, [options |-> Num(3), timeline |-> Undefined,
          advance |-> Undefined, labour_and_material |-> FALSE]>>,
       <<TextLabourMaterial, [options |-> Num(2), timeline |-> Undefined,
          advance |-> Undefined, labour_and_material |-> TRUE]>>,
       <<TextOnlyLabour, [options |-> Num(3), timeline |-> Txt(<<"2", " ", "w", "e", "e", "k", "s">>),
          advance |-> Undefined, labour_and_material |-> FALSE]>>,
       <<TextPercentAdvance, [options |-> Num(3), timeline |-> Txt(<<"1", " ", "m", "o", "n", "t", "h">>),
          advance |-> Num(40), labour_and_material |-> FALSE]>>,
       <<TextAdvancePayment, [options |-> Num(3), timeline |-> Undefined,
          advance |-> Num(25), labour_and_material |-> FALSE]>>,
       <<TextOnlyMaterial, [options |-> Num(3), timeline |-> Undefined,
          advance |-> Undefined, labour_and_material |-> FALSE]>>,
       <<TextTight, [options |-> Num(4), timeline |-> Txt(<<"1", "0", "d", "a", "y", "s">>),
          advance |-> Undefined, labour_and_material |-> FALSE]>>,
       <<TextAdvanceNoPercent, [options |-> Num(3), timeline |-> Undefined,
          advance |-> Undefined, labour_and_material |-> FALSE]>> >>

\* C22: without an "N option(s)" phrase options is 3, without an "<N>
\* days|weeks|months" phrase timeline is undefined, without an advance
\* percentage advance is undefined, and labour_and_material is true exactly when
\* both "labour" and "material" occur in the text, whatever the case.
C22_ParameterDefaults ==
    (Called /\ out.toolCall # Undefined) =>
        LET r == out.toolCall.arguments.requirements
            lower == ToLowerCase(inp.text)
        IN  /\ ~NumberThenWord(lower, {<<"o", "p", "t", "i", "o", "n">>}) =>
                    r.options = Num(3)
            /\ ~NumberThenWord(lower, {<<"d", "a", "y">>, <<"w", "e", "e", "k">>,
                                       <<"m", "o", "n", "t", "h">>}) =>
                    r.timeline = Undefined
            /\ (~Includes(lower, <<"%">>)
                  \/ ~Includes(lower, <<"a", "d", "v", "a", "n", "c", "e">>)) =>
                    r.advance = Undefined
            /\ r.labour_and_material <=>
                    (/\ Includes(lower, <<"l", "a", "b", "o", "u", "r">>)
                     /\ Includes(lower, <<"m", "a", "t", "e", "r", "i", "a", "l">>))
            /\ \A i \in 1..Len(RequirementExamples) :
                    inp.text = RequirementExamples[i][1] => r = RequirementExamples[i][2]

\* C22 happens: a text with one of the two words and no options phrase gets the
\* default options and labour_and_material = false.
C22_Witness ==
    /\ Called
    /\ inp.text = TextOnlyLabour
    /\ out.toolCall # Undefined
    /\ out.toolCall.arguments.requirements.options = Num(3)
    /\ out.toolCall.arguments.requirements.advance = Undefined
    /\ ~out.toolCall.arguments.requirements.labour_and_material

\* the call just made was for chat c and its text was the start command
Started(c) == inp # NoInput /\ inp.chatId = c /\ StrTrim(OrEmpty(inp.rawText)) = StartCommand

\* the result of a call that asks the first question and saves nothing
FirstQuestion == [replyText |-> Txt(PROJECT_FLOW[1].text), savePayload |-> Undefined]

\* the answers a savePayload carries
PayloadAnswers(p) == {p.work_location, p.rooms_count} \ {Null}

\* C23: the start command is an idempotent reset. Whatever the chat's state
\* before it, the call leaves the chat at step 0 with no answers and
\* waitingForAssignConfirm false and replies with the first question; sending
\* it again leaves the same state and gives the same reply; and a savePayload
\* never carries an answer that a start command discarded.
C23_StartIsIdempotentReset ==
    [][\A c \in Chats :
        /\ Started(c)' =>
            /\ state'.conversationState[c] = InitialFlowState
            /\ out' = FirstQuestion
            /\ handleProjectConversation(state'.conversationState, c, inp'.rawText)
                 = [conversationState |-> state'.conversationState, result |-> out']
        /\ (inp'.chatId = c /\ out'.savePayload # Undefined) =>
            PayloadAnswers(out'.savePayload) \cap state'.stale[c] = {}]_vars

\* the start command has just discarded two answers of a chat that was
\* waiting for the confirmation
C23_Witness ==
    /\ Started(101)
    /\ Cardinality(state.stale[101]) = 2
    /\ state.conversationState[101] = InitialFlowState

\* C24: in a chat that is answering the questions, a non-empty text other
\* than the start command is stored (trimmed) under the key of the current
\* question, work_location at step 0 and rooms_count at step 1, and the step
\* grows by exactly one; after the first answer the reply is the second
\* question, after the second it is the yes / no confirmation question and
\* waitingForAssignConfirm is set; no answer step returns a savePayload.
C24_AnswersInOrder ==
    [][\A c \in Chats :
        LET before == state.conversationState[c]
            after == state'.conversationState[c]
            text == StrTrim(OrEmpty(inp'.rawText))
        IN  (/\ inp'.chatId = c
             /\ before # Undefined
             /\ ~before.waitingForAssignConfirm
             /\ text # <<>>
             /\ text # StartCommand) =>
                /\ before.step \in {0, 1}
                /\ after # Undefined
                /\ after.step = before.step + 1
                /\ out'.savePayload = Undefined
                /\ before.step = 0 =>
                    /\ after.answers = [before.answers EXCEPT !.work_location = Txt(text)]
                    /\ ~after.waitingForAssignConfirm
                    /\ out'.replyText = Txt(RoomsCountQuestion)
                /\ before.step = 1 =>
                    /\ after.answers = [before.answers EXCEPT !.rooms_count = Txt(text)]
                    /\ after.waitingForAssignConfirm
                    /\ out'.replyText = Txt(ConfirmPrefix \o text \o ConfirmSuffix)]_vars

\* the second answer has just been stored, after a start command that discarded
\* an earlier answer: both answers are held in the order given and the chat
\* awaits the confirmation
C24_Witness ==
    /\ inp # NoInput
    /\ inp.rawText = Txt(TextTeenKamre)
    /\ state.conversationState[101] =
        [step |-> 2,
         answers |-> [work_location |-> Txt(TextFlat), rooms_count |-> Txt(TextTeenKamre)],
         waitingForAssignConfirm |-> TRUE]
    /\ state.stale[101] = {Txt(TextKarDoDanda)}

\* the resolver's contract over the step flow's two checks: YES and NO need
\* exactly one check to fire
ResolveFlow(text) ==
    IF isYes(text) /\ ~isNo(text) THEN "YES"
    ELSE IF isNo(text) /\ ~isYes(text) THEN "NO"
    ELSE "AMBIGUOUS"

\* C25: while a chat awaits the confirmation, a text the resolver classifies
\* YES or NO returns a savePayload with the two answers and assign_resources
\* true for YES and false for NO, and deletes the chat's state; an AMBIGUOUS
\* text returns the reprompt with no savePayload and leaves the state unchanged.
C25_ConfirmationStep ==
    [][\A c \in Chats :
        LET before == state.conversationState[c]
            after == state'.conversationState[c]
            text == StrTrim(OrEmpty(inp'.rawText))
            outcome == ResolveFlow(text)
        IN  (/\ inp'.chatId = c
             /\ before # Undefined
             /\ before.waitingForAssignConfirm
             /\ text # <<>>
             /\ text # StartCommand) =>
                /\ outcome \in {"YES", "NO"} =>
                    /\ out'.savePayload =
                        [work_location |-> before.answers.work_location,
                         rooms_count |-> before.answers.rooms_count,
                         assign_resources |-> (outcome = "YES")]
                    /\ after = Undefined
                /\ outcome = "AMBIGUOUS" =>
                    /\ out' = [replyText |-> Txt(RepromptReply), savePayload |-> Undefined]
                    /\ after = before]_vars

\* C26: calls for different chats are independent. A call for one chat leaves
\* the state of every other chat as it was (it does not create, change or
\* delete it), and in every interleaving of the calls of two chats each
\* chat's state, reply and savePayload are those of its calls run alone.
C26_ChatsIndependent ==
    [][/\ \A b \in Chats \ {inp'.chatId} :
            state'.conversationState[b] = state.conversationState[b]
       /\ state'.conversationState = state'.alone
       /\ out' = state'.aloneResult]_vars

\* chat 101 has just completed its flow, which deleted its state, while chat
\* 102 is in the middle of its own flow
C26_Witness ==
    /\ inp # NoInput
    /\ inp.chatId = 101
    /\ out.savePayload # Undefined
    /\ state.conversationState[101] = Undefined
    /\ state.conversationState[102] # Undefined
    /\ state.conversationState[102].step = 1
    /\ state.conversationState[102].answers.work_location = Txt(TextKarDoDanda)

\* C27: for each chat at most one call of the webhook handler is in flight,
\* and the handler applies the chat's updates to its step-flow state in the
\* order of their arrival: the k-th update applied is the k-th that arrived.
C27_OneTurnInFlight ==
    \A c \in Chats :
        /\ Cardinality({call \in state.calls : call.chatId = c /\ call.pc # "done"}) <= 1
        /\ state.applied[c] = [k \in 1..Len(state.applied[c]) |-> k]

\* a start command, then a typed first answer, then a spoken second answer
\* (transcribed and stored, which takes several awaits): both are recorded
\* under the keys of their questions
C27_Witness ==
    /\ state.applied[101] = <<1, 2, 3>>
    /\ \E call \in state.calls :
        /\ call.chatId = 101
        /\ call.n = 3
        /\ call.messageText = TextTeenKamre \o AudioMark \o AudioUrl
    /\ state.conversationState[101] # Undefined
    /\ state.conversationState[101].answers =
        [work_location |-> Txt(TextFlat), rooms_count |-> Txt(TextTeenKamre)]

\* the turn just made was answered with the confirmation recap
RecapReplied ==
    /\ inp # NoInput
    /\ out # NoOutput
    /\ inp.analysis.success
    /\ ~Nullish(inp.analysis.data)
    /\ out.reply = generateConfirmation(inp.analysis.data)

\* the step is a turn on which leadStatus becomes LEAD_CAPTURED
Captures == state.leadStatus # "LEAD_CAPTURED" /\ state'.leadStatus = "LEAD_CAPTURED"

C29_LeadIdFrame ==
    [][/\ out'.newState.leadId = inp'.state.leadId
       /\ state'.leadId = state.leadId
       /\ ~Truthy(state.leadId) =>
            /\ out'.toolCall = Undefined
            /\ IntentIs(inp', {"GENERATE_QUOTE_OPTIONS"}) =>
                /\ out'.dependencies # Undefined
                /\ Len(out'.dependencies.arr) > 0
                /\ out'.dependencies.arr[1].type = "PROJECT_REQUIRED"]_vars

\* a quote request with an area, made after the lead was captured in a
\* conversation that has no leadId: PROJECT_REQUIRED is the only dependency
C29_Witness ==
    /\ inp # NoInput
    /\ IntentIs(inp, {"GENERATE_QUOTE_OPTIONS"})
    /\ inp.state.leadStatus = "LEAD_CAPTURED"
    /\ inp.state.leadId = Undefined
    /\ inp.measurements # Undefined
    /\ out.toolCall = Undefined
    /\ DependencyTypes(out) = <<"PROJECT_REQUIRED">>
    /\ state.leadId = Undefined

\* C30: in every state a conversation can store, lastIntent
\* SCHEDULE_SITE_VISIT goes with leadStatus LEAD_CAPTURED, and lastIntent
\* LEAD_CAPTURED or LEAD_MODIFICATION goes with leadStatus NEW.
C30_IntentStatusInvariant ==
    /\ state.lastIntent = "SCHEDULE_SITE_VISIT" => state.leadStatus = "LEAD_CAPTURED"
    /\ state.lastIntent \in {"LEAD_CAPTURED", "LEAD_MODIFICATION"} => state.leadStatus = "NEW"

\* the recap was declined: the stored state has lastIntent LEAD_MODIFICATION
C30_Witness ==
    /\ inp # NoInput
    /\ inp.state.lastIntent = "LEAD_CAPTURED"
    /\ out.reply = ModificationReply
    /\ state.lastIntent = "LEAD_MODIFICATION"
    /\ state.leadStatus = "NEW"

----------------------------------------------------------------------------
(* C31 .. C37 *)

\* the text of a field in a recap
TextOf(v) == IF Nullish(v) THEN "null" ELSE v.str

\* the recap that names the parts in keys, in the order Customer, Location,
\* Job, Urgency
RecapWith(a, keys) ==
    LET parts ==
            (IF "Customer" \in keys THEN <<"Customer: " \o TextOf(a.customer.name)>> ELSE <<>>)
            \o (IF "Location" \in keys THEN <<"Location: " \o TextOf(a.location_text)>> ELSE <<>>)
            \o (IF "Job" \in keys THEN <<"Job: " \o TextOf(a.job_type)>> ELSE <<>>)
            \o (IF "Urgency" \in keys THEN <<"Urgency: " \o TextOf(a.urgency)>> ELSE <<>>)
    IN  "Mere hisaab se painting ka kaam samajh aa gaya hai aur saari important details mil gayi hain."
        \o (IF keys = {} THEN "" ELSE " Quick recap -- " \o Join(parts, ", ") \o ".")
        \o " Kya yeh sahi hai?"

RecapParts == {"Customer", "Location", "Job", "Urgency"}

PassesThrough(input) ==
    \/ IntentIs(input, {"NEW_LEAD", "OTHER"})
    \/ (IntentIs(input, {"UPDATE_EXISTING_LEAD"}) /\ LeadBound(input.state))

\* C32: with intent NEW_LEAD or OTHER, or UPDATE_EXISTING_LEAD while a project
\* is bound, the orchestrator returns exactly what it returns for the same
\* text, state, analysis and measurements with no intent supplied
C32_PassThroughIntents ==
    (Called /\ PassesThrough(inp)) =>
        out = runLeadOrchestrator([inp EXCEPT !.intent = Undefined])

\* an update of a bound project whose analysis is incomplete is answered with
\* the follow-up questions, as it is without the intent
C32_Witness ==
    /\ Called
    /\ IntentIs(inp, {"UPDATE_EXISTING_LEAD"})
    /\ inp.intent.lead_hint = Str("HSR 2BHK")
    /\ LeadBound(inp.state)
    /\ inp.analysis.success /\ inp.analysis.data = EmptyLead
    /\ ~detectGreeting(inp.text)
    /\ inp.state.lastIntent # "LEAD_CAPTURED"
    /\ out.newState.lastIntent = "NEW"


\* the keys an answers object holds
AnswerKeys(answers) == {k \in DOMAIN answers : answers[k] # Undefined}

\* the keys of the first n questions of PROJECT_FLOW
FirstKeys(n) == {PROJECT_FLOW[i].key : i \in 1..n}

\* the branch "no more steps configured" would be taken by the chat's next answer
FallbackEnabled(st) == ~st.waitingForAssignConfirm /\ st.step + 1 > Len(PROJECT_FLOW)

\* C33: every stored per-chat state has step 0, 1 or 2, is waiting for the
\* confirmation exactly when step is 2, and holds the answers of exactly the
\* first step questions; so no stored state can take the terminal fallback
C33_FlowStateShape ==
    \A c \in Chats :
        LET st == MapGet(state.conversationState, c)
        IN  st # Undefined =>
                /\ st.step \in 0..Len(PROJECT_FLOW)
                /\ st.waitingForAssignConfirm <=> (st.step = Len(PROJECT_FLOW))
                /\ AnswerKeys(st.answers) = FirstKeys(st.step)
                /\ ~FallbackEnabled(st)

\* one chat has answered both questions and is asked to confirm while the
\* other has answered the first only
C33_Witness ==
    /\ MapGet(state.conversationState, 101) # Undefined
    /\ MapGet(state.conversationState, 101).step = 2
    /\ MapGet(state.conversationState, 101).waitingForAssignConfirm
    /\ MapGet(state.conversationState, 102) # Undefined
    /\ MapGet(state.conversationState, 102).step = 1
    /\ inp # NoInput /\ inp.chatId = 101 /\ inp.rawText = Txt(TextFlat)


\* the call just made returned a savePayload
Saved == inp # NoInput /\ out # NoOutput /\ out.savePayload # Undefined

\* C34: every savePayload has a work_location and a rooms_count that are not
\* null, and they are the first and the second non-empty text other than the
\* start command that the chat sent after its most recent start command
C34_PayloadIsTheTwoAnswers ==
    Saved =>
        LET said == state.since[inp.chatId]
        IN  /\ Len(said) = 2
            /\ out.savePayload.work_location # Null
            /\ out.savePayload.rooms_count # Null
            /\ out.savePayload.work_location = Txt(said[1])
            /\ out.savePayload.rooms_count = Txt(said[2])

\* a payload saved after a restart: the answer given before the second start
\* command is not in it, and the refusal saves the two answers given after it
C34_Witness ==
    /\ Saved
    /\ state.stale[inp.chatId] = {Txt(TextTeenKamre)}
    /\ state.since[inp.chatId] = <<TextFlat, TextKarDoDanda>>
    /\ out.savePayload.work_location = Txt(TextFlat)
    /\ out.savePayload.rooms_count = Txt(TextKarDoDanda)
    /\ ~out.savePayload.assign_resources


\* the result of a call that says nothing and saves nothing
NothingReplied == [replyText |-> Null, savePayload |-> Undefined]

\* C35: a chat gets at most one savePayload per start command. Once a call of
\* the chat has returned a savePayload, every call of the chat whose text is
\* not the start command returns a null reply and no savePayload and leaves
\* the chat without a state, so a second savePayload needs a start command
\* in between
C35_OneSavePerStart ==
    [][\A c \in Chats :
        (/\ state.saved[c]
         /\ inp'.chatId = c
         /\ StrTrim(OrEmpty(inp'.rawText)) # StartCommand) =>
            /\ out' = NothingReplied
            /\ MapGet(state.conversationState, c) = Undefined
            /\ MapGet(state'.conversationState, c) = Undefined
            /\ state'.saved[c]]_vars

\* after a completed flow the chat has said "kar do" again: nothing is
\* replied, nothing is saved and the chat has no state
C35_Witness ==
    /\ inp # NoInput /\ inp.chatId = 101 /\ inp.rawText = Txt(TextKarDoDanda)
    /\ state.saved[101]
    /\ out = NothingReplied
    /\ MapGet(state.conversationState, 101) = Undefined
    /\ state.since[101] = <<TextFlat, TextTeenKamre>>


\* C36: a call whose text is empty, only white space, null or undefined, and a
\* call of a chat that has no state whose text is not the start command,
\* returns a null reply and no savePayload and leaves the state of every chat
\* as it was (none is created, none is changed, also while the chat is asked
\* to confirm)
C36_NothingToHandle ==
    [][\A c \in Chats :
        LET text == StrTrim(OrEmpty(inp'.rawText))
        IN  (/\ inp'.chatId = c
             /\ \/ text = <<>>
                \/ (MapGet(state.conversationState, c) = Undefined /\ text # StartCommand)) =>
                /\ out' = NothingReplied
                /\ state'.conversationState = state.conversationState]_vars

\* an undefined text has been handled while the chat is asked to confirm
C36_Witness ==
    /\ inp # NoInput /\ inp.chatId = 101 /\ inp.rawText = Undefined
    /\ out = NothingReplied
    /\ MapGet(state.conversationState, 101) # Undefined
    /\ MapGet(state.conversationState, 101).waitingForAssignConfirm
    /\ MapGet(state.conversationState, 101).answers.rooms_count = Txt(TextTeenKamre)


\* the texts processVoiceMessage puts in place of, or next to, what was said
\* when a service fails
VoiceFailureTexts ==
    {GetFileFailed, DownloadFailed, TranscriptionUnavailable, UploadFailed,
     Tail(UploadFailedNote)}

SaidOnly(v) == Nullish(v) \/ \A p \in VoiceFailureTexts : ~Includes(v.chars, p)

\* C37: only what the user typed or said reaches the step flow as an answer:
\* no text that processVoiceMessage produces for a failed voice message is
\* handled as an answer, stored as work_location or rooms_count, or saved
C37_OnlyWhatWasSaid ==
    /\ \A c \in Chats :
        LET st == MapGet(state.conversationState, c)
        IN  st # Undefined =>
                SaidOnly(st.answers.work_location) /\ SaidOnly(st.answers.rooms_count)
    /\ (inp # NoInput /\ out # NoOutput /\ out.savePayload # Undefined) =>
            SaidOnly(out.savePayload.work_location) /\ SaidOnly(out.savePayload.rooms_count)


====
